---- MODULE Spec2Model ----
(***************************************************************************)
(* Preservation pipeline of the griot-and-grits backend.                   *)
(*                                                                         *)
(*   Spec      the ingestion orchestrator (IngestionService) over the      *)
(*             artifact store (Database) and the hot object store          *)
(*   SpecColl  the collection draft/finalize state machine                 *)
(*             (CollectionService) over the database and the archive       *)
(*             directory client (GlobusService)                            *)
(*                                                                         *)
(* Every await on a collaborator (database, object store, directory        *)
(* client) is one step that either succeeds or raises.                     *)
(***************************************************************************)
EXTENDS Integers, Sequences, FiniteSets, TLC

VARIABLES
    settings,      \* Settings.processing: [enable_metadata_extraction]
    artifacts,     \* db.artifacts: sequence of documents, _id = index
    store,         \* hot object store: set of [path, content, meta]
    call,          \* ingest_artifact invocations: locals and position
    collections,   \* db.collections: sequence of documents
    archive,       \* directories made in the archive filesystem
    draft,         \* create_draft invocations: locals and position
    fin,           \* finalize_collection invocations: locals and position
    clock,         \* datetime.utcnow() as read by the collection workflow
    started,       \* how many create_draft / finalize_collection calls began
    op,            \* the last direct call on a supporting service, and
                   \* what it gave back
    seen,          \* the last result of get_locations
    tmp            \* files in /tmp: set of [name, content]

vars ==
    <<settings, artifacts, store, call, collections, archive, draft, fin,
      clock, started, op, seen, tmp>>

ingestVars == <<settings, artifacts, store, call>>
collVars == <<collections, archive, draft, fin, clock, started>>
svcVars == <<op, seen>>

(***************************************************************************)
(* Bounds of the model                                                     *)
(***************************************************************************)
MaxCalls == 2          \* ingest_artifact invocations in one behaviour
MaxDrafts == 1         \* create_draft invocations in one behaviour
MaxFinalize == 2       \* finalize_collection invocations in one behaviour
MaxConcurrent == 2     \* requests served at the same time (SpecDrafts)
MaxTitleLen == 3       \* length of the enumerated titles (SpecSlug)
MaxOps == 2            \* direct calls on the supporting services (SpecServices)

Calls == 1..MaxCalls
\* Collection ids a finalize request may name: those a draft may get, and
\* one that no collection has.
CollectionIds == 1..(MaxDrafts + 1)
\* Request slots of the collection workflow: a slot runs one call at a time.
Drafts == {1}
Finalizes == {1}
\* Request slots when requests overlap.
ConcurrentDrafts == 1..MaxConcurrent

\* Uploaded byte strings: empty, and 2 bytes long.
Contents == {<< >>, <<7, 9>>}
Filenames == {"a.wav"}
\* datetime.utcnow() as seen by build_storage_path during an ingestion.
Dates == {[year |-> 2026, month |-> 1, day |-> 15]}

(***************************************************************************)
(* Enumerations (app/models/metadata.py)                                   *)
(***************************************************************************)
ArtifactStatus == {"uploading", "processing", "ready", "failed", "archived"}
StorageType == {"hot", "archive"}
PreservationEventOutcome == {"success", "failure", "warning"}

NoPath == [year |-> << >>, month |-> << >>, artifact_id |-> 0, filename |-> ""]

(***************************************************************************)
(* FixityService                                                           *)
(***************************************************************************)
\* hashlib digests, kept symbolic: the digest of b under algorithm a.
CalculateChecksums(content) ==
    [md5 |-> <<"md5", content>>, sha256 |-> <<"sha256", content>>]

\* FixityAlgorithm, in the order in which generate_fixity_info asks for them.
FixityAlgorithms == <<"md5", "sha256", "sha512">>

\* Digests a caller may hand in.
Digests == {"d1", "d2"}

\* Checksum maps: any algorithms, any digests.
ChecksumMaps ==
    UNION {[algos -> Digests] : algos \in SUBSET {"md5", "sha256", "sha512"}}

FixityServiceError == [error |-> "FixityServiceError"]

\* Variant: the algorithm list is left at the default of FixityInfo.
GenerateFixityInfoDefaultAlgorithms(checksums) ==
    IF "md5" \notin DOMAIN checksums \/ "sha256" \notin DOMAIN checksums
    THEN FixityServiceError
    ELSE [checksum_md5 |-> checksums["md5"],
          checksum_sha256 |-> checksums["sha256"],
          algorithm |-> <<"md5", "sha256">>,
          verified_at |-> 0]

\* generate_fixity_info: raises without md5 or sha256; the algorithm list
\* gets md5, sha256, sha512 appended in this order, each when in the map.
GenerateFixityInfo(checksums) ==
    IF "md5" \notin DOMAIN checksums \/ "sha256" \notin DOMAIN checksums
    THEN FixityServiceError
    ELSE [checksum_md5 |-> checksums["md5"],
          checksum_sha256 |-> checksums["sha256"],
          algorithm |-> SelectSeq(FixityAlgorithms,
                                  LAMBDA algo : algo \in DOMAIN checksums),
          verified_at |-> 0]

\* The message verify_checksums appends for one algorithm of expected;
\* << >> when the digests agree.
Mismatch(algo, expected, actual) ==
    IF algo \notin DOMAIN actual
    THEN <<algo, "not calculated">>
    ELSE IF actual[algo] # expected[algo]
         THEN <<algo, "expected", expected[algo], "got", actual[algo]>>
         ELSE << >>

\* Variant: an algorithm that was not calculated is skipped.
VerifyChecksumsSkippingAbsent(expected, actual) ==
    LET asked == SelectSeq(FixityAlgorithms,
                           LAMBDA algo : algo \in DOMAIN expected /\ algo \in DOMAIN actual)
        mismatches == SelectSeq([k \in DOMAIN asked |-> Mismatch(asked[k], expected, actual)],
                                LAMBDA m : m # << >>)
    IN [all_match |-> Len(mismatches) = 0, mismatches |-> mismatches]

\* verify_checksums: one pass over the items of expected (taken in the
\* order of FixityAlgorithms), then (len(mismatches) == 0, mismatches).
VerifyChecksums(expected, actual) ==
    LET asked == SelectSeq(FixityAlgorithms, LAMBDA algo : algo \in DOMAIN expected)
        mismatches == SelectSeq([k \in DOMAIN asked |-> Mismatch(asked[k], expected, actual)],
                                LAMBDA m : m # << >>)
    IN [all_match |-> Len(mismatches) = 0, mismatches |-> mismatches]

(***************************************************************************)
(* Database: artifact documents                                            *)
(***************************************************************************)
ArtifactIds(arts) == DOMAIN arts

\* update_one({"_id": oid}, {"$set": {"status": ...}}): no match, no change.
UpdateArtifactStatus(arts, artifact_id, status) ==
    IF artifact_id \in DOMAIN arts
    THEN [arts EXCEPT ![artifact_id].status = status]
    ELSE arts

\* Variant: the newest location is stored first.
AddStorageLocationNewestFirst(arts, artifact_id, location) ==
    IF artifact_id \in DOMAIN arts
    THEN [arts EXCEPT ![artifact_id].storage_locations = <<location>> \o @]
    ELSE arts

\* update_one({"_id": oid}, {"$push": {"storage_locations": location}})
AddStorageLocation(arts, artifact_id, location) ==
    IF artifact_id \in DOMAIN arts
    THEN [arts EXCEPT ![artifact_id].storage_locations = Append(@, location)]
    ELSE arts

\* Variant: the newest event is stored first.
AddPreservationEventNewestFirst(arts, artifact_id, event) ==
    IF artifact_id \in DOMAIN arts
    THEN [arts EXCEPT ![artifact_id].preservation_events = <<event>> \o @]
    ELSE arts

\* update_one({"_id": oid}, {"$push": {"preservation_events": event}})
AddPreservationEvent(arts, artifact_id, event) ==
    IF artifact_id \in DOMAIN arts
    THEN [arts EXCEPT ![artifact_id].preservation_events = Append(@, event)]
    ELSE arts

(***************************************************************************)
(* StorageLocationService / PreservationEventService records               *)
(***************************************************************************)
\* strftime("%Y") and strftime("%m"): the decimal digits of n, zero-padded
\* to the width (years from 1000 on).
RECURSIVE Decimal(_, _)
Decimal(n, width) ==
    IF width = 0 THEN << >>
    ELSE Append(Decimal(n \div 10, width - 1), n % 10)

\* Variant: the path is partitioned by day as well.
BuildStoragePathByDay(artifact_id, filename, date) ==
    [year |-> Decimal(date.year, 4), month |-> Decimal(date.month, 2),
     day |-> Decimal(date.day, 2),
     artifact_id |-> artifact_id, filename |-> filename]

\* f"artifacts/{year}/{month}/{artifact_id}/{filename}", by its segments.
BuildStoragePath(artifact_id, filename, date) ==
    [year |-> Decimal(date.year, 4), month |-> Decimal(date.month, 2),
     artifact_id |-> artifact_id, filename |-> filename]

\* Variant: the size is taken from the stream after it was consumed.
StorageLocationSizeOfDrainedStream(storage_type, path, size_bytes, checksums) ==
    [storage_type |-> storage_type,
     path |-> path,
     size_bytes |-> 0,
     checksum_md5 |-> checksums.md5,
     checksum_sha256 |-> checksums.sha256,
     verified_at |-> 0]

StorageLocation(storage_type, path, size_bytes, checksums) ==
    [storage_type |-> storage_type,
     path |-> path,
     size_bytes |-> size_bytes,
     checksum_md5 |-> checksums.md5,
     checksum_sha256 |-> checksums.sha256,
     verified_at |-> 0]

PreservationEvent(event_type, outcome, agent, detail, related_object) ==
    [event_type |-> event_type,
     timestamp |-> clock,
     outcome |-> outcome,
     agent |-> agent,
     detail |-> detail,
     related_object |-> related_object]

\* log_ingestion: detail = "Artifact ingested to storage path: {storage_path}"
LogIngestionEvent(outcome, storage_path, agent) ==
    PreservationEvent("ingestion", outcome, agent,
                      [text |-> "Artifact ingested to storage path", cause |-> ""],
                      storage_path)

\* the handler's event: detail = "Ingestion failed: {str(e)}"
FailureDetail(exc) == [text |-> "Ingestion failed", cause |-> exc]

FailureEvent(exc, agent) ==
    PreservationEvent("ingestion", "failure", agent, FailureDetail(exc), NoPath)

(***************************************************************************)
(* IngestionService._create_artifact_record                                *)
(***************************************************************************)
\* Variant: the archival checksum is the MD5 digest.
CreateArtifactRecordArchivingMd5(fixity_info) ==
    [status |-> "processing",
     version |-> 1,
     fixity |-> fixity_info,
     archival_checksum |-> fixity_info.checksum_md5,
     storage_locations |-> << >>,
     preservation_events |-> << >>]

\* archival_info.checksum = fixity_info.checksum_sha256; status PROCESSING;
\* artifact.fixity = fixity_info
CreateArtifactRecord(fixity_info) ==
    [status |-> "processing",
     version |-> 1,
     fixity |-> fixity_info,
     archival_checksum |-> fixity_info.checksum_sha256,
     storage_locations |-> << >>,
     preservation_events |-> << >>]

\* No direct service call was made yet; no get_locations result was read.
IdleOp ==
    [name |-> "", artifact_id |-> 0, storage_type |-> "", event_type |-> "",
     result |-> "", value |-> << >>, count |-> 0]
NothingSeen == [artifact_id |-> 0, locations |-> << >>]

\* Variant: the verification is stamped on the fixity record as well.
UpdateStorageLocationVerificationStampingFixity(arts, artifact_id, storage_type, at) ==
    IF /\ artifact_id \in DOMAIN arts
       /\ \E i \in DOMAIN arts[artifact_id].storage_locations :
             arts[artifact_id].storage_locations[i].storage_type = storage_type
    THEN LET locs == arts[artifact_id].storage_locations
             first == CHOOSE i \in DOMAIN locs :
                         /\ locs[i].storage_type = storage_type
                         /\ \A j \in DOMAIN locs :
                               locs[j].storage_type = storage_type => i <= j
         IN [arts EXCEPT ![artifact_id].storage_locations[first].verified_at = at,
                         ![artifact_id].fixity.verified_at = at]
    ELSE arts

\* update_one({"_id": oid, "storage_locations.storage_type": t},
\*            {"$set": {"storage_locations.$.verified_at": at}}):
\* the positional operator addresses the first matching element.
UpdateStorageLocationVerification(arts, artifact_id, storage_type, at) ==
    IF /\ artifact_id \in DOMAIN arts
       /\ \E i \in DOMAIN arts[artifact_id].storage_locations :
             arts[artifact_id].storage_locations[i].storage_type = storage_type
    THEN LET locs == arts[artifact_id].storage_locations
             first == CHOOSE i \in DOMAIN locs :
                         /\ locs[i].storage_type = storage_type
                         /\ \A j \in DOMAIN locs :
                               locs[j].storage_type = storage_type => i <= j
         IN [arts EXCEPT ![artifact_id].storage_locations[first].verified_at = at]
    ELSE arts

(***************************************************************************)
(* Collections: inputs                                                     *)
(***************************************************************************)
\* Draft requests: title and optional slug, as sequences of characters
\* (the empty sequence is "no slug"). Both requests lead to the slug my-t.
Requests ==
    {[title |-> <<"M", "y", " ", "T", "!", "!">>, slug |-> << >>],
     [title |-> <<"M", "y", " ", "T", "!", "!">>, slug |-> <<"m", "y", "-", "t">>]}
\* Titles a draft request may carry (CollectionDraftRequest.title, 1 to 200
\* characters): every short string over a few characters, and long ones
\* around the 50-character cut.
TitleAlphabet == {"M", "y", " ", "!", "7", "-"}
Rep(ch, n) == [i \in 1..n |-> ch]
MyTestTitle == <<"M", "y", " ", "T", "e", "s", "t", "!", "!">>
LongTitles ==
    {MyTestTitle,
     Rep("a", 60),
     Rep("a", 49) \o <<"!", "!", "b">>,
     Rep("a", 50) \o <<"!">>,
     <<"!">> \o Rep("B", 50) \o <<"c">>}
Titles == LongTitles \cup UNION {[1..n -> TitleAlphabet] : n \in 1..MaxTitleLen}
\* datetime.utcnow() months seen by _build_archive_path under SpecSlug
ArchiveMonths == {[year |-> 2025, month |-> 12], [year |-> 2026, month |-> 1]}

\* uuid.uuid4().hex[:6]
Suffixes == {<<"0", "a", "1", "b", "2", "c">>}

File(name, size) == [name |-> name, type |-> "file", size |-> size]
Dir(name) == [name |-> name, type |-> "dir", size |-> 0]

\* What operation_ls may answer for {path}raw/ and for {path}.
RawListings ==
    {<< >>,
     <<Dir("nested")>>,
     <<File("a.wav", 3), Dir("nested"), File("b.wav", 4)>>}
RootListings ==
    {<<Dir("raw"), Dir("processed")>>,
     <<Dir("raw"), File("manifest.json", 1)>>,
     <<Dir("raw"), Dir("manifest.json")>>}

\* An error raised by the directory client: list_directory turns a
\* TransferAPIError into GlobusServiceError, anything else passes through.
ListingErrors == {"GlobusServiceError", "Exception"}

(***************************************************************************)
(* CollectionService helpers                                               *)
(***************************************************************************)
SlugMaxLen == 50

LowerLetters ==
    <<"a", "b", "c", "d", "e", "f", "g", "h", "i", "j", "k", "l", "m",
      "n", "o", "p", "q", "r", "s", "t", "u", "v", "w", "x", "y", "z">>
UpperLetters ==
    <<"A", "B", "C", "D", "E", "F", "G", "H", "I", "J", "K", "L", "M",
      "N", "O", "P", "Q", "R", "S", "T", "U", "V", "W", "X", "Y", "Z">>
Digits == {"0", "1", "2", "3", "4", "5", "6", "7", "8", "9"}

\* str.lower, one character
Lower(ch) ==
    IF \E i \in DOMAIN UpperLetters : UpperLetters[i] = ch
    THEN LowerLetters[CHOOSE i \in DOMAIN UpperLetters : UpperLetters[i] = ch]
    ELSE ch

\* [a-z0-9]
IsSlugChar(ch) ==
    ch \in {LowerLetters[i] : i \in DOMAIN LowerLetters} \cup Digits

\* re.sub(r'[^a-z0-9]+', '-', s)
RECURSIVE CollapseRuns(_, _)
CollapseRuns(s, inRun) ==
    IF s = << >> THEN << >>
    ELSE IF IsSlugChar(Head(s)) THEN <<Head(s)>> \o CollapseRuns(Tail(s), FALSE)
    ELSE IF inRun THEN CollapseRuns(Tail(s), TRUE)
    ELSE <<"-">> \o CollapseRuns(Tail(s), TRUE)

\* s.strip('-')
RECURSIVE StripLeft(_)
StripLeft(s) ==
    IF s # << >> /\ Head(s) = "-" THEN StripLeft(Tail(s)) ELSE s

RECURSIVE StripRight(_)
StripRight(s) ==
    IF s # << >> /\ s[Len(s)] = "-"
    THEN StripRight(SubSeq(s, 1, Len(s) - 1))
    ELSE s

\* Variant: the cut to 50 characters is made before the trim.
GenerateSlugCutBeforeTrim(title) ==
    LET lowered == [i \in DOMAIN title |-> Lower(title[i])]
        collapsed == CollapseRuns(lowered, FALSE)
        cut == IF Len(collapsed) > SlugMaxLen
               THEN SubSeq(collapsed, 1, SlugMaxLen)
               ELSE collapsed
    IN StripRight(StripLeft(cut))

GenerateSlug(title) ==
    LET lowered == [i \in DOMAIN title |-> Lower(title[i])]
        stripped == StripRight(StripLeft(CollapseRuns(lowered, FALSE)))
    IN IF Len(stripped) > SlugMaxLen
       THEN SubSeq(stripped, 1, SlugMaxLen)
       ELSE stripped

\* f"{base}/{month}/{slug}/"
BuildArchivePath(slug, date) ==
    [base |-> "/archive", year |-> date.year, month |-> date.month, slug |-> slug]

NewCollection(collection_id, title, slug, globus_path, created_at) ==
    [collection_id |-> collection_id,
     title |-> title,
     slug |-> slug,
     status |-> "draft",
     globus_path |-> globus_path,
     globus_endpoint_id |-> "endpoint",
     actual_artifact_count |-> -1,
     total_size_bytes |-> -1,
     verification_errors |-> << >>,
     has_manifest |-> FALSE,
     has_package_zip |-> FALSE,
     created_at |-> created_at,
     verified_at |-> 0,
     sealed_at |-> 0,
     updated_at |-> 0]

(***************************************************************************)
(* Database: collection documents                                          *)
(***************************************************************************)
\* find_one({"collection_id": collection_id}); 0 stands for None
GetCollection(colls, collection_id) ==
    IF \E i \in DOMAIN colls : colls[i].collection_id = collection_id
    THEN CHOOSE i \in DOMAIN colls : colls[i].collection_id = collection_id
    ELSE 0

\* find_one({"slug": slug})
GetCollectionBySlug(colls, slug) ==
    IF \E i \in DOMAIN colls : colls[i].slug = slug
    THEN CHOOSE i \in DOMAIN colls : colls[i].slug = slug
    ELSE 0

\* Variant: the update replaces the verification results it does not name
\* by their initial values.
UpdateCollectionResettingResults(colls, collection_id, updates, at) ==
    LET i == GetCollection(colls, collection_id)
    IN IF i = 0 THEN colls
       ELSE [colls EXCEPT ![i] =
               [k \in DOMAIN colls[i] |->
                   IF k = "updated_at" THEN at
                   ELSE IF k \in DOMAIN updates THEN updates[k]
                   ELSE IF k \in {"actual_artifact_count", "total_size_bytes"}
                        THEN -1
                   ELSE IF k \in {"verified_at", "sealed_at"} THEN 0
                   ELSE colls[i][k]]]

\* update_one({"collection_id": id}, {"$set": updates + updated_at})
UpdateCollection(colls, collection_id, updates, at) ==
    LET i == GetCollection(colls, collection_id)
    IN IF i = 0 THEN colls
       ELSE [colls EXCEPT ![i] =
               [k \in DOMAIN colls[i] |->
                   IF k = "updated_at" THEN at
                   ELSE IF k \in DOMAIN updates THEN updates[k]
                   ELSE colls[i][k]]]

(***************************************************************************)
(* CollectionService.finalize_collection: verification                     *)
(***************************************************************************)
WarnNoManifest ==
    "Warning: manifest.json not found in root (recommended for preservation)"
ErrRawEmpty ==
    "Error: raw/ folder is empty. Upload files to raw/ before finalizing."

\* error_msg of the two except clauses
FailureMessage(error) ==
    CASE error = "GlobusServiceError" ->
             "Globus verification failed: Failed to list directory"
      [] error = "DatabaseError" -> "Verification failed: database error"
      [] OTHER -> "Verification failed: directory client error"

FilesOf(listing) == {i \in DOMAIN listing : listing[i].type = "file"}

RECURSIVE SumSizes(_, _)
SumSizes(listing, idx) ==
    IF idx = {} THEN 0
    ELSE LET i == CHOOSE j \in idx : TRUE
         IN listing[i].size + SumSizes(listing, idx \ {i})

HasManifest(root_files) ==
    \E i \in FilesOf(root_files) : root_files[i].name = "manifest.json"

\* Variant: every entry of the listing counts, directories included.
VerificationErrorsCountingEntries(raw_files) ==
    IF Len(raw_files) = 0 THEN <<ErrRawEmpty>> ELSE << >>

VerificationErrors(raw_files) ==
    IF Cardinality(FilesOf(raw_files)) = 0 THEN <<ErrRawEmpty>> ELSE << >>

Warnings(root_files) ==
    IF ~HasManifest(root_files) THEN <<WarnNoManifest>> ELSE << >>

\* Variant: the verification seals whatever it found.
VerificationStatusAlwaysSealed(raw_files) == "sealed"

\* status = SEALED if not verification_errors else FAILED
VerificationStatus(raw_files) ==
    IF VerificationErrors(raw_files) = << >> THEN "sealed" ELSE "failed"

\* Variant: a missing manifest.json blocks sealing.
VerificationUpdatesManifestRequired(raw_files, root_files, now) ==
    LET status == IF VerificationErrors(raw_files) = << >>
                     /\ HasManifest(root_files)
                  THEN "sealed" ELSE "failed"
        base == [status |-> status,
                 has_manifest |-> HasManifest(root_files),
                 has_package_zip |-> FALSE,
                 total_size_bytes |-> SumSizes(raw_files, FilesOf(raw_files)),
                 actual_artifact_count |-> Cardinality(FilesOf(raw_files)),
                 verified_at |-> now,
                 verification_errors |->
                     VerificationErrors(raw_files) \o Warnings(root_files)]
    IN IF status = "sealed" THEN base @@ [sealed_at |-> now] ELSE base

\* the updates dict of lines 152-163
VerificationUpdates(raw_files, root_files, now) ==
    LET base == [status |-> VerificationStatus(raw_files),
                 has_manifest |-> HasManifest(root_files),
                 has_package_zip |-> FALSE,
                 total_size_bytes |-> SumSizes(raw_files, FilesOf(raw_files)),
                 actual_artifact_count |-> Cardinality(FilesOf(raw_files)),
                 verified_at |-> now,
                 verification_errors |->
                     VerificationErrors(raw_files) \o Warnings(root_files)]
    IN IF VerificationStatus(raw_files) = "sealed"
       THEN base @@ [sealed_at |-> now]
       ELSE base

\* Variant: the failure update also clears the archive location.
FailureUpdatesResettingPath(error) ==
    [status |-> "failed", verification_errors |-> <<FailureMessage(error)>>,
     globus_path |-> BuildArchivePath(<< >>, [year |-> 0, month |-> 0])]

\* the updates dict of the except clauses
FailureUpdates(error) ==
    [status |-> "failed", verification_errors |-> <<FailureMessage(error)>>]

(***************************************************************************)
(* IngestionService.ingest_artifact, one action per await                  *)
(***************************************************************************)
IdleCall ==
    [pc |-> "idle", content |-> << >>, filename |-> "", file_size |-> 0,
     artifact_id |-> 0, storage_path |-> NoPath, exc |-> "",
     result |-> "", response_status |-> ""]

\* The except clause of ingest_artifact is entered with exception text e.
Raise(c, e) == call' = [call EXCEPT ![c].pc = "handler", ![c].exc = e]

\* The call ends: it returned, or raised an error of class `result`.
Finish(c, result) == call' = [call EXCEPT ![c].pc = "done", ![c].result = result]

IngestStart(c, content, filename) ==
    /\ call[c].pc = "idle"
    /\ \A b \in Calls : b < c => call[b].pc = "done"
    /\ call' = [call EXCEPT ![c].pc = "read",
                            ![c].content = content,
                            ![c].filename = filename]
    /\ UNCHANGED <<tmp, settings, artifacts, store, collVars, svcVars>>

\* Variant: the bytes are streamed to the object store while they are read,
\* before the artifact record exists.
ReadFileStreamingToStorage(c) ==
    /\ call[c].pc = "read"
    /\ store' = store \cup {[path |-> BuildStoragePath(0, call[c].filename,
                                                         CHOOSE d \in Dates : TRUE),
                              content |-> call[c].content]}
    /\ call' = [call EXCEPT ![c].pc = "insert",
                            ![c].file_size = Len(call[c].content)]
    /\ UNCHANGED <<tmp, settings, artifacts, collVars, svcVars>>

\* Step 1: file.read(), len(file_content), checksums, fixity record.
ReadFile(c) ==
    /\ call[c].pc = "read"
    /\ call' = [call EXCEPT ![c].pc = "insert",
                            ![c].file_size = Len(call[c].content)]
    /\ UNCHANGED <<tmp, settings, artifacts, store, collVars, svcVars>>

ReadFileFails(c) ==
    /\ call[c].pc = "read"
    /\ Raise(c, "read")
    /\ UNCHANGED <<tmp, settings, artifacts, store, collVars, svcVars>>

\* Variant: the hot location is registered with the insert, before the
\* upload.
InsertArtifactRegisteringLocation(c) ==
    /\ call[c].pc = "insert"
    /\ artifacts' = Append(artifacts,
          [CreateArtifactRecord(
               GenerateFixityInfo(CalculateChecksums(call[c].content)))
              EXCEPT !.storage_locations =
                  <<StorageLocation("hot",
                        BuildStoragePath(Len(artifacts) + 1, call[c].filename,
                                         CHOOSE d \in Dates : TRUE),
                        call[c].file_size, CalculateChecksums(call[c].content))>>])
    /\ call' = [call EXCEPT ![c].pc = "upload",
                            ![c].artifact_id = Len(artifacts) + 1]
    /\ UNCHANGED <<tmp, settings, store, collVars, svcVars>>

\* Step 2: db.insert_artifact of the record built by _create_artifact_record.
InsertArtifact(c) ==
    /\ call[c].pc = "insert"
    /\ artifacts' = Append(artifacts,
          CreateArtifactRecord(
              GenerateFixityInfo(CalculateChecksums(call[c].content))))
    /\ call' = [call EXCEPT ![c].pc = "upload",
                            ![c].artifact_id = Len(artifacts) + 1]
    /\ UNCHANGED <<tmp, settings, store, collVars, svcVars>>

InsertArtifactFails(c) ==
    /\ call[c].pc = "insert"
    /\ Raise(c, "insert")
    /\ UNCHANGED <<tmp, settings, artifacts, store, collVars, svcVars>>

\* Step 3: build_storage_path, then _upload_to_storage (storage.upload_file).
\* _upload_to_storage has no await: within one event loop the temporary
\* file is written, uploaded and removed in one step.  What a failed
\* upload leaves in /tmp is followed in the worker-level steps below.
UploadToStorage(c, date) ==
    /\ call[c].pc = "upload"
    /\ LET path == BuildStoragePath(call[c].artifact_id, call[c].filename, date)
       IN /\ store' = {o \in store : o.path # path}
                        \cup {[path |-> path, content |-> call[c].content]}
          /\ call' = [call EXCEPT ![c].pc = "register",
                                  ![c].storage_path = path]
    /\ UNCHANGED <<tmp, settings, artifacts, collVars, svcVars>>

UploadToStorageFails(c, date) ==
    /\ call[c].pc = "upload"
    /\ call' = [call EXCEPT
          ![c].pc = "handler",
          ![c].exc = "upload",
          ![c].storage_path =
              BuildStoragePath(call[c].artifact_id, call[c].filename, date)]
    /\ UNCHANGED <<tmp, settings, artifacts, store, collVars, svcVars>>

(***************************************************************************)
(* ingest_artifact in several worker processes that share /tmp: the steps  *)
(* of _upload_to_storage of one process interleave with those of another.  *)
(***************************************************************************)
NoTempFile == "upload: no temporary file"

\* temp_path = f"/tmp/{os.path.basename(storage_path)}": the filename.
TempFiles(name) == {f \in tmp : f.name = name}

IngestStartConcurrent(c, content, filename) ==
    /\ call[c].pc = "idle"
    /\ call' = [call EXCEPT ![c].pc = "read",
                            ![c].content = content,
                            ![c].filename = filename]
    /\ UNCHANGED <<tmp, settings, artifacts, store, collVars, svcVars>>

\* with open(temp_path, "wb") as f: f.write(file_stream.read())
WriteTempFile(c, date) ==
    /\ call[c].pc = "upload"
    /\ tmp' = (tmp \ TempFiles(call[c].filename))
                \cup {[name |-> call[c].filename, content |-> call[c].content]}
    /\ call' = [call EXCEPT
          ![c].pc = "upload_put",
          ![c].storage_path =
              BuildStoragePath(call[c].artifact_id, call[c].filename, date)]
    /\ UNCHANGED <<settings, artifacts, store, collVars, svcVars>>

\* storage.upload_file(file_path=temp_path, s3_path=storage_path): the
\* object gets the bytes the file holds now; FileNotFoundError without it.
PutTempFile(c) ==
    /\ call[c].pc = "upload_put"
    /\ IF TempFiles(call[c].filename) = {}
       THEN /\ Raise(c, NoTempFile)
            /\ UNCHANGED store
       ELSE /\ store' = {o \in store : o.path # call[c].storage_path}
                          \cup {[path |-> call[c].storage_path,
                                 content |-> (CHOOSE f \in TempFiles(call[c].filename) :
                                                 TRUE).content]}
            /\ call' = [call EXCEPT ![c].pc = "upload_remove"]
    /\ UNCHANGED <<tmp, settings, artifacts, collVars, svcVars>>

\* upload_file raises: the temporary file stays.
PutTempFileFails(c) ==
    /\ call[c].pc = "upload_put"
    /\ Raise(c, "upload")
    /\ UNCHANGED <<tmp, settings, artifacts, store, collVars, svcVars>>

\* os.remove(temp_path): FileNotFoundError when the file is gone.
RemoveTempFile(c) ==
    /\ call[c].pc = "upload_remove"
    /\ IF TempFiles(call[c].filename) = {}
       THEN /\ Raise(c, NoTempFile)
            /\ UNCHANGED tmp
       ELSE /\ tmp' = tmp \ TempFiles(call[c].filename)
            /\ call' = [call EXCEPT ![c].pc = "register"]
    /\ UNCHANGED <<settings, artifacts, store, collVars, svcVars>>

\* Step 4: storage_location_service.register_location(HOT, ...).
RegisterLocation(c) ==
    /\ call[c].pc = "register"
    /\ artifacts' = AddStorageLocation(artifacts, call[c].artifact_id,
          StorageLocation("hot", call[c].storage_path, call[c].file_size,
                          CalculateChecksums(call[c].content)))
    /\ call' = [call EXCEPT ![c].pc = "log"]
    /\ UNCHANGED <<tmp, settings, store, collVars, svcVars>>

RegisterLocationFails(c) ==
    /\ call[c].pc = "register"
    /\ Raise(c, "register")
    /\ UNCHANGED <<tmp, settings, artifacts, store, collVars, svcVars>>

\* Step 5: preservation_event_service.log_ingestion(SUCCESS, ...).
LogIngestion(c) ==
    /\ call[c].pc = "log"
    /\ artifacts' = AddPreservationEvent(artifacts, call[c].artifact_id,
          LogIngestionEvent("success", call[c].storage_path, "api"))
    /\ call' = [call EXCEPT ![c].pc = "status"]
    /\ UNCHANGED <<tmp, settings, store, collVars, svcVars>>

LogIngestionFails(c) ==
    /\ call[c].pc = "log"
    /\ Raise(c, "log")
    /\ UNCHANGED <<tmp, settings, artifacts, store, collVars, svcVars>>

\* Step 6: READY, or PROCESSING when metadata extraction is enabled.
FinalStatus ==
    IF settings.enable_metadata_extraction THEN "processing" ELSE "ready"

\* Variant: the response reports READY whatever was persisted.
UpdateFinalStatusRespondingReady(c) ==
    /\ call[c].pc = "status"
    /\ artifacts' = UpdateArtifactStatus(artifacts, call[c].artifact_id, FinalStatus)
    /\ call' = [call EXCEPT ![c].pc = "done",
                            ![c].result = "returned",
                            ![c].response_status = "ready"]
    /\ UNCHANGED <<tmp, settings, store, collVars, svcVars>>

\* Step 6: update_artifact_status(final_status), then the response.
UpdateFinalStatus(c) ==
    /\ call[c].pc = "status"
    /\ artifacts' = UpdateArtifactStatus(artifacts, call[c].artifact_id, FinalStatus)
    /\ call' = [call EXCEPT ![c].pc = "done",
                            ![c].result = "returned",
                            ![c].response_status = FinalStatus]
    /\ UNCHANGED <<tmp, settings, store, collVars, svcVars>>

UpdateFinalStatusFails(c) ==
    /\ call[c].pc = "status"
    /\ Raise(c, "status")
    /\ UNCHANGED <<tmp, settings, artifacts, store, collVars, svcVars>>

\* except Exception: "artifact_id" not in locals(): re-raise only.
HandlerNoArtifact(c) ==
    /\ call[c].pc = "handler"
    /\ call[c].artifact_id = 0
    /\ Finish(c, "IngestionServiceError")
    /\ UNCHANGED <<tmp, settings, artifacts, store, collVars, svcVars>>

\* except Exception: log_event(INGESTION, FAILURE, detail=f"Ingestion failed: {e}")
HandlerLogFailure(c) ==
    /\ call[c].pc = "handler"
    /\ call[c].artifact_id # 0
    /\ artifacts' = AddPreservationEvent(artifacts, call[c].artifact_id,
                                         FailureEvent(call[c].exc, "api"))
    /\ call' = [call EXCEPT ![c].pc = "handler_status"]
    /\ UNCHANGED <<tmp, settings, store, collVars, svcVars>>

\* log_event raises inside the handler: the error leaves ingest_artifact as is.
HandlerLogFailureFails(c) ==
    /\ call[c].pc = "handler"
    /\ call[c].artifact_id # 0
    /\ Finish(c, "PreservationEventServiceError")
    /\ UNCHANGED <<tmp, settings, artifacts, store, collVars, svcVars>>

\* Variant: the handler re-raises without forcing the status.
HandlerSetFailedSkipsStatus(c) ==
    /\ call[c].pc = "handler_status"
    /\ Finish(c, "IngestionServiceError")
    /\ UNCHANGED <<tmp, settings, artifacts, store, collVars, svcVars>>

\* update_artifact_status(FAILED), then raise IngestionServiceError.
HandlerSetFailed(c) ==
    /\ call[c].pc = "handler_status"
    /\ artifacts' = UpdateArtifactStatus(artifacts, call[c].artifact_id, "failed")
    /\ Finish(c, "IngestionServiceError")
    /\ UNCHANGED <<tmp, settings, store, collVars, svcVars>>

\* update_artifact_status raises inside the handler.
HandlerSetFailedFails(c) ==
    /\ call[c].pc = "handler_status"
    /\ Finish(c, "DatabaseError")
    /\ UNCHANGED <<tmp, settings, artifacts, store, collVars, svcVars>>

\* IngestionService.finalize_ingestion(artifact_id)
FinalizeIngestion(artifact_id) ==
    /\ artifacts' = UpdateArtifactStatus(artifacts, artifact_id, "ready")
    /\ UNCHANGED <<tmp, settings, store, call, collVars, svcVars>>

(***************************************************************************)
(* Direct calls on StorageLocationService and PreservationEventService:    *)
(* each makes one await on the database, which succeeds or raises          *)
(***************************************************************************)
\* Artifact ids a caller may pass: the first artifact, and one no artifact has.
AskedArtifactIds == {1, MaxCalls + 1}
\* Events a caller may log besides the ingestion events.
EventInputs ==
    {[event_type |-> "fixity_check", outcome |-> "failure"],
     [event_type |-> "replication", outcome |-> "success"]}

\* The call is over: what it was and what it gave back.
Returned(name, artifact_id, storage_type, result, value) ==
    op' = [name |-> name, artifact_id |-> artifact_id,
           storage_type |-> storage_type, event_type |-> "", result |-> result,
           value |-> value, count |-> op.count + 1]

\* The archive-tier record a replication registers.
ArchiveCopy(artifact_id) ==
    StorageLocation("archive",
                    BuildStoragePath(artifact_id, "a.wav", CHOOSE d \in Dates : TRUE),
                    2, CalculateChecksums(<<7, 9>>))

\* register_location: the record is built, add_storage_location is awaited
\* (its boolean result is not read), the record is returned.
RegisterLocationCall(artifact_id, storage_type) ==
    /\ op.count < MaxOps
    /\ LET location == [ArchiveCopy(artifact_id) EXCEPT !.storage_type = storage_type]
       IN /\ artifacts' = AddStorageLocation(artifacts, artifact_id, location)
          /\ Returned("register_location", artifact_id, storage_type, "returned", <<location>>)
    /\ UNCHANGED <<tmp, settings, store, call, collVars, seen>>

\* add_storage_location raises.
RegisterLocationCallFails(artifact_id, storage_type) ==
    /\ op.count < MaxOps
    /\ Returned("register_location", artifact_id, storage_type, "StorageLocationServiceError", << >>)
    /\ UNCHANGED <<tmp, ingestVars, collVars, seen>>

\* log_event: the event is built, add_preservation_event is awaited (its
\* boolean result is not read), the event is returned.
LogEventCall(artifact_id, input) ==
    /\ op.count < MaxOps
    /\ LET event == PreservationEvent(input.event_type, input.outcome, "system",
                                      [text |-> "", cause |-> ""], NoPath)
       IN /\ artifacts' = AddPreservationEvent(artifacts, artifact_id, event)
          /\ Returned("log_event", artifact_id, "", "returned", <<event>>)
    /\ UNCHANGED <<tmp, settings, store, call, collVars, seen>>

LogEventCallFails(artifact_id, input) ==
    /\ op.count < MaxOps
    /\ Returned("log_event", artifact_id, "", "PreservationEventServiceError", << >>)
    /\ UNCHANGED <<tmp, ingestVars, collVars, seen>>

\* update_verification_time: update_storage_location_verification is
\* awaited with utcnow(); its boolean result is not read; returns None.
UpdateVerificationTimeCall(artifact_id, storage_type) ==
    /\ op.count < MaxOps
    /\ artifacts' = UpdateStorageLocationVerification(artifacts, artifact_id,
                                                      storage_type, clock)
    /\ clock' = clock + 1
    /\ Returned("update_verification_time", artifact_id, storage_type, "returned", << >>)
    /\ UNCHANGED <<tmp, settings, store, call, collections, archive, draft, fin,
                   started, seen>>

UpdateVerificationTimeCallFails(artifact_id, storage_type) ==
    /\ op.count < MaxOps
    /\ Returned("update_verification_time", artifact_id, storage_type,
                "StorageLocationServiceError", << >>)
    /\ UNCHANGED <<tmp, ingestVars, collVars, seen>>

\* get_locations: get_artifact is awaited; no artifact, or the read
\* raising, gives StorageLocationServiceError.
GetLocationsCall(artifact_id) ==
    /\ op.count < MaxOps
    /\ IF artifact_id \in DOMAIN artifacts
       THEN /\ Returned("get_locations", artifact_id, "", "returned",
                        artifacts[artifact_id].storage_locations)
            /\ seen' = [artifact_id |-> artifact_id,
                        locations |-> artifacts[artifact_id].storage_locations]
       ELSE /\ Returned("get_locations", artifact_id, "",
                        "StorageLocationServiceError", << >>)
            /\ UNCHANGED seen
    /\ UNCHANGED <<tmp, ingestVars, collVars>>

GetLocationsCallFails(artifact_id) ==
    /\ op.count < MaxOps
    /\ Returned("get_locations", artifact_id, "", "StorageLocationServiceError", << >>)
    /\ UNCHANGED <<tmp, ingestVars, collVars, seen>>

ServiceStep ==
    \E artifact_id \in AskedArtifactIds :
        \/ \E t \in StorageType : RegisterLocationCall(artifact_id, t)
        \/ \E t \in StorageType : RegisterLocationCallFails(artifact_id, t)
        \/ \E input \in EventInputs : LogEventCall(artifact_id, input)
        \/ \E input \in EventInputs : LogEventCallFails(artifact_id, input)
        \/ \E t \in StorageType : UpdateVerificationTimeCall(artifact_id, t)
        \/ \E t \in StorageType : UpdateVerificationTimeCallFails(artifact_id, t)
        \/ GetLocationsCall(artifact_id)
        \/ GetLocationsCallFails(artifact_id)

(***************************************************************************)
(* Queries on the supporting services.  Each awaits get_artifact once; the *)
(* value of a call that raised is the message of its exception.  Queries   *)
(* write nothing and are not counted against MaxOps.                       *)
(***************************************************************************)
ArtifactNotFound == "Artifact not found"
NoHotLocation == "No hot storage location found"
ReadFailed == "read failed"

\* The event types a query may name; None is "".
EventTypeFilters == {"", "fixity_check"}

\* datetime.utcnow() gives a later value.
TimePasses ==
    /\ clock < MaxOps
    /\ clock' = clock + 1
    /\ UNCHANGED <<tmp, ingestVars, collections, archive, draft, fin, started, svcVars>>

\* log_event takes the timestamp when it builds the event and awaits
\* add_preservation_event afterwards: the write lands at or after built_at.
LogEventCallDelayed(artifact_id, input, built_at) ==
    /\ op.count < MaxOps
    /\ built_at \in 1..clock
    /\ LET event == [PreservationEvent(input.event_type, input.outcome, "system",
                                       [text |-> "", cause |-> ""], NoPath)
                         EXCEPT !.timestamp = built_at]
       IN /\ artifacts' = AddPreservationEvent(artifacts, artifact_id, event)
          /\ Returned("log_event", artifact_id, "", "returned", <<event>>)
    /\ UNCHANGED <<tmp, settings, store, call, collVars, seen>>

\* The query is over: what it asked and what it gave back.
Answered(name, artifact_id, storage_type, event_type, result, value) ==
    op' = [name |-> name, artifact_id |-> artifact_id,
           storage_type |-> storage_type, event_type |-> event_type,
           result |-> result, value |-> value, count |-> op.count]

\* The index of the location get_primary_location picks: the loop returns
\* at the first location whose storage_type matches; 0 when none does.
PrimaryIndexLastMatch(locations, storage_type) ==
    LET matching == {i \in DOMAIN locations : locations[i].storage_type = storage_type}
    IN IF matching = {} THEN 0
       ELSE CHOOSE i \in matching : \A j \in matching : j <= i

PrimaryIndex(locations, storage_type) ==
    LET matching == {i \in DOMAIN locations : locations[i].storage_type = storage_type}
    IN IF matching = {} THEN 0
       ELSE CHOOSE i \in matching : \A j \in matching : i <= j

\* get_primary_location: get_locations raises for an unknown artifact;
\* otherwise the first location of the tier, or None.
GetPrimaryLocationCall(artifact_id, storage_type) ==
    /\ IF artifact_id \in DOMAIN artifacts
       THEN LET locations == artifacts[artifact_id].storage_locations
                i == PrimaryIndex(locations, storage_type)
            IN Answered("get_primary_location", artifact_id, storage_type, "", "returned",
                        IF i = 0 THEN << >> ELSE <<locations[i]>>)
       ELSE Answered("get_primary_location", artifact_id, storage_type, "",
                     "StorageLocationServiceError", <<ArtifactNotFound>>)
    /\ UNCHANGED <<tmp, ingestVars, collVars, seen>>

\* get_artifact raises.
GetPrimaryLocationCallFails(artifact_id, storage_type) ==
    /\ Answered("get_primary_location", artifact_id, storage_type, "",
                "StorageLocationServiceError", <<ReadFailed>>)
    /\ UNCHANGED <<tmp, ingestVars, collVars, seen>>

\* The acknowledgment replicate_to_archive returns.
PendingReplication(artifact_id) ==
    [status |-> "pending", artifact_id |-> artifact_id,
     source_type |-> "hot", destination_type |-> "archive"]

\* Variant: the replication is carried out, registering the archive copy.
ReplicateToArchiveCallRegistering(artifact_id) ==
    /\ IF artifact_id \in DOMAIN artifacts
       THEN IF PrimaryIndex(artifacts[artifact_id].storage_locations, "hot") # 0
            THEN /\ Answered("replicate_to_archive", artifact_id, "", "", "returned",
                             <<PendingReplication(artifact_id)>>)
                 /\ artifacts' = AddStorageLocation(artifacts, artifact_id,
                                                    ArchiveCopy(artifact_id))
            ELSE /\ Answered("replicate_to_archive", artifact_id, "", "",
                             "StorageLocationServiceError", <<NoHotLocation>>)
                 /\ UNCHANGED artifacts
       ELSE /\ Answered("replicate_to_archive", artifact_id, "", "",
                        "StorageLocationServiceError", <<ArtifactNotFound>>)
            /\ UNCHANGED artifacts
    /\ UNCHANGED <<tmp, settings, store, call, collVars, seen>>

\* replicate_to_archive: get_primary_location(HOT) is awaited; without a
\* hot location the call raises, with one it returns the acknowledgment.
\* Nothing is written.
ReplicateToArchiveCall(artifact_id) ==
    /\ IF artifact_id \in DOMAIN artifacts
       THEN IF PrimaryIndex(artifacts[artifact_id].storage_locations, "hot") # 0
            THEN /\ Answered("replicate_to_archive", artifact_id, "", "", "returned",
                             <<PendingReplication(artifact_id)>>)
                 /\ UNCHANGED artifacts
            ELSE /\ Answered("replicate_to_archive", artifact_id, "", "",
                             "StorageLocationServiceError", <<NoHotLocation>>)
                 /\ UNCHANGED artifacts
       ELSE /\ Answered("replicate_to_archive", artifact_id, "", "",
                        "StorageLocationServiceError", <<ArtifactNotFound>>)
            /\ UNCHANGED artifacts
    /\ UNCHANGED <<tmp, settings, store, call, collVars, seen>>

\* get_artifact raises.
ReplicateToArchiveCallFails(artifact_id) ==
    /\ Answered("replicate_to_archive", artifact_id, "", "",
                "StorageLocationServiceError", <<ReadFailed>>)
    /\ UNCHANGED <<tmp, ingestVars, collVars, seen>>

\* Variant: the filter keeps the first event of the type only.
EventsOfTypeFirstOnly(events, event_type) ==
    IF event_type = "" THEN events
    ELSE LET of_type == SelectSeq(events, LAMBDA e : e.event_type = event_type)
         IN IF of_type = << >> THEN << >> ELSE <<of_type[1]>>

\* if event_type: events = [e for e in events if e["event_type"] == event_type.value]
EventsOfType(events, event_type) ==
    IF event_type = "" THEN events
    ELSE SelectSeq(events, LAMBDA e : e.event_type = event_type)

\* get_events: get_artifact is awaited; no artifact, or the read raising,
\* gives PreservationEventServiceError.
GetEventsCall(artifact_id, event_type) ==
    /\ IF artifact_id \in DOMAIN artifacts
       THEN Answered("get_events", artifact_id, "", event_type, "returned",
                           EventsOfType(artifacts[artifact_id].preservation_events,
                                        event_type))
       ELSE Answered("get_events", artifact_id, "", event_type,
                           "PreservationEventServiceError", <<ArtifactNotFound>>)
    /\ UNCHANGED <<tmp, ingestVars, collVars, seen>>

GetEventsCallFails(artifact_id, event_type) ==
    /\ Answered("get_events", artifact_id, "", event_type,
                      "PreservationEventServiceError", <<ReadFailed>>)
    /\ UNCHANGED <<tmp, ingestVars, collVars, seen>>

\* The position that comes first in events.sort(key=timestamp, reverse=True):
\* the sort is stable, so among equal timestamps the lowest index.
RECURSIVE SortedByTimestampDescending(_)
SortedByTimestampDescending(events) ==
    IF events = << >> THEN << >>
    ELSE LET top == CHOOSE i \in DOMAIN events :
                        /\ \A j \in DOMAIN events :
                               events[j].timestamp <= events[i].timestamp
                        /\ \A j \in 1..(i - 1) :
                               events[j].timestamp < events[i].timestamp
             rest == [k \in 1..(Len(events) - 1) |->
                         IF k < top THEN events[k] ELSE events[k + 1]]
         IN <<events[top]>> \o SortedByTimestampDescending(rest)

\* Variant: the event stored last is taken for the latest.
LatestOfLastStored(events) ==
    IF events = << >> THEN << >>
    ELSE <<events[Len(events)]>>

\* if not events: return None; events.sort(...); return events[0]
LatestOf(events) ==
    IF events = << >> THEN << >>
    ELSE <<SortedByTimestampDescending(events)[1]>>

\* get_latest_event: get_events(artifact_id, event_type) is awaited.
GetLatestEventCall(artifact_id, event_type) ==
    /\ IF artifact_id \in DOMAIN artifacts
       THEN Answered("get_latest_event", artifact_id, "", event_type, "returned",
                           LatestOf(EventsOfType(artifacts[artifact_id].preservation_events,
                                                 event_type)))
       ELSE Answered("get_latest_event", artifact_id, "", event_type,
                           "PreservationEventServiceError", <<ArtifactNotFound>>)
    /\ UNCHANGED <<tmp, ingestVars, collVars, seen>>

GetLatestEventCallFails(artifact_id, event_type) ==
    /\ Answered("get_latest_event", artifact_id, "", event_type,
                      "PreservationEventServiceError", <<ReadFailed>>)
    /\ UNCHANGED <<tmp, ingestVars, collVars, seen>>

\* The event a caller logs before a query; the ingestion logs its own.
QueryEventInputs ==
    {[event_type |-> "fixity_check", outcome |-> "failure"]}

\* FixityService is synchronous: a call is one step, recorded with its
\* arguments and its result.
GenerateFixityInfoCall(checksums) ==
    /\ op' = [name |-> "generate_fixity_info", checksums |-> checksums,
              value |-> GenerateFixityInfo(checksums), count |-> op.count]
    /\ UNCHANGED <<tmp, ingestVars, collVars, seen>>

VerifyChecksumsCall(expected, actual) ==
    /\ op' = [name |-> "verify_checksums", expected |-> expected, actual |-> actual,
              value |-> VerifyChecksums(expected, actual), count |-> op.count]
    /\ UNCHANGED <<tmp, ingestVars, collVars, seen>>

\* Dates a caller of build_storage_path may pass; NoDate is None.
PathDates ==
    {[year |-> 2025, month |-> 12, day |-> 31],
     [year |-> 2026, month |-> 1, day |-> 1],
     [year |-> 2026, month |-> 1, day |-> 15],
     [year |-> 2026, month |-> 10, day |-> 1]}
NoDate == [year |-> 0, month |-> 0, day |-> 0]
PathFilenames == {"a.wav", "b.wav"}

\* datetime.utcnow(), as a date: a month goes by with every tick.
UtcNow ==
    [year |-> 2025 + (clock \div 2),
     month |-> IF clock % 2 = 1 THEN 12 ELSE 1,
     day |-> 31]

\* build_storage_path is synchronous: one step, recorded with its
\* arguments, the time of the call and the path.  storage_type is not read.
BuildStoragePathCall(artifact_id, filename, storage_type, date) ==
    /\ op' = [name |-> "build_storage_path", artifact_id |-> artifact_id,
              filename |-> filename, storage_type |-> storage_type,
              date |-> date, now |-> UtcNow,
              value |-> BuildStoragePath(artifact_id, filename,
                                         IF date = NoDate THEN UtcNow ELSE date),
              count |-> op.count]
    /\ UNCHANGED <<tmp, ingestVars, collVars, seen>>

LocationQueryStep ==
    \/ \E t \in StorageType : RegisterLocationCall(1, t)
    \/ \E artifact_id \in AskedArtifactIds :
        \/ \E t \in StorageType : GetPrimaryLocationCall(artifact_id, t)
        \/ \E t \in StorageType : GetPrimaryLocationCallFails(artifact_id, t)
        \/ ReplicateToArchiveCall(artifact_id)
        \/ ReplicateToArchiveCallFails(artifact_id)

EventQueryStep ==
    \/ \E input \in QueryEventInputs, built_at \in 1..MaxOps :
          LogEventCallDelayed(1, input, built_at)
    \/ \E artifact_id \in AskedArtifactIds :
        \/ \E e \in EventTypeFilters : GetEventsCall(artifact_id, e)
        \/ \E e \in EventTypeFilters : GetEventsCallFails(artifact_id, e)
        \/ \E e \in EventTypeFilters \ {""} : GetLatestEventCall(artifact_id, e)
        \/ \E e \in EventTypeFilters \ {""} : GetLatestEventCallFails(artifact_id, e)

IngestStep(c) ==
    \/ \E content \in Contents, filename \in Filenames :
           IngestStart(c, content, filename)
    \/ ReadFile(c)
    \/ ReadFileFails(c)
    \/ InsertArtifact(c)
    \/ InsertArtifactFails(c)
    \/ \E date \in Dates : UploadToStorage(c, date)
    \/ \E date \in Dates : UploadToStorageFails(c, date)
    \/ RegisterLocation(c)
    \/ RegisterLocationFails(c)
    \/ LogIngestion(c)
    \/ LogIngestionFails(c)
    \/ UpdateFinalStatus(c)
    \/ UpdateFinalStatusFails(c)
    \/ HandlerNoArtifact(c)
    \/ HandlerLogFailure(c)
    \/ HandlerLogFailureFails(c)
    \/ HandlerSetFailed(c)
    \/ HandlerSetFailedFails(c)

\* The steps of ingest_artifact in one of several worker processes.
WorkerStep(c) ==
    \/ \E content \in Contents, filename \in Filenames :
           IngestStartConcurrent(c, content, filename)
    \/ ReadFile(c)
    \/ ReadFileFails(c)
    \/ InsertArtifact(c)
    \/ InsertArtifactFails(c)
    \/ \E date \in Dates : WriteTempFile(c, date)
    \/ \E date \in Dates : UploadToStorageFails(c, date)
    \/ PutTempFile(c)
    \/ PutTempFileFails(c)
    \/ RemoveTempFile(c)
    \/ RegisterLocation(c)
    \/ RegisterLocationFails(c)
    \/ LogIngestion(c)
    \/ LogIngestionFails(c)
    \/ UpdateFinalStatus(c)
    \/ UpdateFinalStatusFails(c)
    \/ HandlerNoArtifact(c)
    \/ HandlerLogFailure(c)
    \/ HandlerLogFailureFails(c)
    \/ HandlerSetFailed(c)
    \/ HandlerSetFailedFails(c)

(***************************************************************************)
(* CollectionService.create_draft, one action per await                    *)
(***************************************************************************)
IdleDraft ==
    [pc |-> "idle", title |-> << >>, request_slug |-> << >>, slug |-> << >>,
     collection_id |-> 0, dir |-> 0, result |-> ""]

\* The directories create_draft makes, in order, relative to globus_path.
DraftDirs == <<"", "raw/", "processed/">>

\* The call ends (returns or raises `result`); its locals are dropped.
DraftFinish(d, result) ==
    draft' = [draft EXCEPT ![d] = [IdleDraft EXCEPT
                                      !.pc = "done",
                                      !.collection_id = draft[d].collection_id,
                                      !.result = result]]

\* Calls on the collections are issued one at a time.
NoCollectionCallInFlight ==
    /\ \A d \in Drafts : draft[d].pc \in {"idle", "done"}
    /\ \A f \in Finalizes : fin[f].pc \in {"idle", "done"}

DraftStart(d, request) ==
    /\ NoCollectionCallInFlight
    /\ started.draft < MaxDrafts
    /\ started' = [started EXCEPT !.draft = @ + 1]
    /\ draft' = [draft EXCEPT ![d] = [IdleDraft EXCEPT
                                          !.pc = "check_slug",
                                          !.title = request.title,
                                          !.request_slug = request.slug]]
    /\ UNCHANGED <<tmp, ingestVars, svcVars, collections, archive, fin, clock>>

\* slug = request.slug or _generate_slug(title); get_collection_by_slug;
\* a random suffix when the slug is taken.
DraftCheckSlug(d, suffix) ==
    /\ draft[d].pc = "check_slug"
    /\ LET slug == IF draft[d].request_slug # << >>
                   THEN draft[d].request_slug
                   ELSE GenerateSlug(draft[d].title)
       IN draft' = [draft EXCEPT
             ![d].pc = "insert",
             ![d].slug = IF GetCollectionBySlug(collections, slug) # 0
                         THEN slug \o <<"-">> \o suffix
                         ELSE slug]
    /\ UNCHANGED <<tmp, ingestVars, svcVars, collections, archive, fin, clock, started>>

DraftCheckSlugFails(d) ==
    /\ draft[d].pc = "check_slug"
    /\ DraftFinish(d, "DatabaseError")
    /\ UNCHANGED <<tmp, ingestVars, svcVars, collections, archive, fin, clock, started>>

\* Variant: the collection has no unique index on slug.
DraftInsertWithoutUniqueIndex(d, date) ==
    /\ draft[d].pc = "insert"
    /\ collections' = Append(collections,
          NewCollection(Len(collections) + 1, draft[d].title, draft[d].slug,
                        BuildArchivePath(draft[d].slug, date), clock))
    /\ draft' = [draft EXCEPT ![d].pc = "mkdir",
                              ![d].collection_id = Len(collections) + 1,
                              ![d].dir = 1]
    /\ UNCHANGED <<tmp, ingestVars, svcVars, archive, fin, clock, started>>

\* insert_collection: the unique index on slug rejects a duplicate.
DraftInsert(d, date) ==
    /\ draft[d].pc = "insert"
    /\ GetCollectionBySlug(collections, draft[d].slug) = 0
    /\ collections' = Append(collections,
          NewCollection(Len(collections) + 1, draft[d].title, draft[d].slug,
                        BuildArchivePath(draft[d].slug, date), clock))
    /\ draft' = [draft EXCEPT ![d].pc = "mkdir",
                              ![d].collection_id = Len(collections) + 1,
                              ![d].dir = 1]
    /\ UNCHANGED <<tmp, ingestVars, svcVars, archive, fin, clock, started>>

\* insert_one raises (DuplicateKeyError or any other database error).
DraftInsertFails(d) ==
    /\ draft[d].pc = "insert"
    /\ DraftFinish(d, "DatabaseError")
    /\ UNCHANGED <<tmp, ingestVars, svcVars, collections, archive, fin, clock, started>>

DraftPath(d) == collections[GetCollection(collections, draft[d].collection_id)].globus_path

\* globus.create_directory of the next directory; after the third, return.
DraftMkdir(d) ==
    /\ draft[d].pc = "mkdir"
    /\ archive' = archive \cup
          {[path |-> DraftPath(d), sub |-> DraftDirs[draft[d].dir]]}
    /\ IF draft[d].dir = Len(DraftDirs)
       THEN DraftFinish(d, "returned")
       ELSE draft' = [draft EXCEPT ![d].dir = @ + 1]
    /\ UNCHANGED <<tmp, ingestVars, svcVars, collections, fin, clock, started>>

\* create_directory raises GlobusServiceError: logged, the draft is returned.
DraftMkdirFails(d) ==
    /\ draft[d].pc = "mkdir"
    /\ DraftFinish(d, "returned")
    /\ UNCHANGED <<tmp, ingestVars, svcVars, collections, archive, fin, clock, started>>

\* create_directory raises an error that is no GlobusServiceError.
DraftMkdirRaises(d) ==
    /\ draft[d].pc = "mkdir"
    /\ DraftFinish(d, "Exception")
    /\ UNCHANGED <<tmp, ingestVars, svcVars, collections, archive, fin, clock, started>>

DraftStep(d) ==
    \/ \E request \in Requests : DraftStart(d, request)
    \/ \E suffix \in Suffixes : DraftCheckSlug(d, suffix)
    \/ DraftCheckSlugFails(d)
    \/ \E date \in Dates : DraftInsert(d, date)
    \/ DraftInsertFails(d)
    \/ DraftMkdir(d)
    \/ DraftMkdirFails(d)
    \/ DraftMkdirRaises(d)

\* A create_draft request that arrives while others are being served.
DraftStartConcurrent(d, request) ==
    /\ draft[d].pc = "idle"
    /\ draft' = [draft EXCEPT ![d] = [IdleDraft EXCEPT
                                          !.pc = "check_slug",
                                          !.title = request.title,
                                          !.request_slug = request.slug]]
    /\ UNCHANGED <<tmp, ingestVars, svcVars, collections, archive, fin, clock, started>>

DraftStepConcurrent(d) ==
    \/ \E request \in Requests : DraftStartConcurrent(d, request)
    \/ \E suffix \in Suffixes : DraftCheckSlug(d, suffix)
    \/ DraftCheckSlugFails(d)
    \/ \E date \in Dates : DraftInsert(d, date)
    \/ DraftInsertFails(d)
    \/ DraftMkdir(d)
    \/ DraftMkdirFails(d)
    \/ DraftMkdirRaises(d)

\* A create_draft request that carries a title and no slug.
DraftStartTitle(d, title) ==
    /\ draft[d].pc = "idle"
    /\ draft' = [draft EXCEPT ![d] = [IdleDraft EXCEPT
                                          !.pc = "check_slug",
                                          !.title = title]]
    /\ UNCHANGED <<tmp, ingestVars, svcVars, collections, archive, fin, clock, started>>

DraftStepTitle(d) ==
    \/ \E title \in Titles : DraftStartTitle(d, title)
    \/ \E suffix \in Suffixes : DraftCheckSlug(d, suffix)
    \/ DraftCheckSlugFails(d)
    \/ \E date \in ArchiveMonths : DraftInsert(d, date)
    \/ DraftInsertFails(d)
    \/ DraftMkdir(d)
    \/ DraftMkdirFails(d)
    \/ DraftMkdirRaises(d)

(***************************************************************************)
(* CollectionService.finalize_collection, one action per await             *)
(***************************************************************************)
IdleFinalize ==
    [pc |-> "idle", collection_id |-> 0, listed |-> 0, raw_files |-> << >>,
     root_files |-> << >>, updates |-> [status |-> ""], error |-> "",
     result |-> ""]

\* The call ends (returns or raises `result`); its locals are dropped.
FinFinish(f, result) ==
    fin' = [fin EXCEPT ![f] = [IdleFinalize EXCEPT
                                  !.pc = "done",
                                  !.collection_id = fin[f].collection_id,
                                  !.error = fin[f].error,
                                  !.result = result]]

FinStart(f, collection_id) ==
    /\ NoCollectionCallInFlight
    /\ started.fin < MaxFinalize
    /\ started' = [started EXCEPT !.fin = @ + 1]
    /\ fin' = [fin EXCEPT ![f] = [IdleFinalize EXCEPT
                                      !.pc = "get",
                                      !.collection_id = collection_id]]
    /\ UNCHANGED <<tmp, ingestVars, svcVars, collections, archive, draft, clock>>

\* Variant: the lookup result is not tested, the call goes on to verify.
FinGetWithoutNotFoundCheck(f) ==
    /\ fin[f].pc = "get"
    /\ fin' = [fin EXCEPT ![f].pc = "set_verifying"]
    /\ UNCHANGED <<tmp, ingestVars, svcVars, collections, archive, draft, clock, started>>

\* db.get_collection; unknown id: raise CollectionServiceError.
FinGet(f) ==
    /\ fin[f].pc = "get"
    /\ IF GetCollection(collections, fin[f].collection_id) = 0
       THEN fin' = [fin EXCEPT ![f].pc = "done", ![f].error = "NotFound",
                               ![f].result = "CollectionServiceError"]
       ELSE fin' = [fin EXCEPT ![f].pc = "set_verifying"]
    /\ UNCHANGED <<tmp, ingestVars, svcVars, collections, archive, draft, clock, started>>

\* db.get_collection raises.
FinGetFails(f) ==
    /\ fin[f].pc = "get"
    /\ FinFinish(f, "DatabaseError")
    /\ UNCHANGED <<tmp, ingestVars, svcVars, collections, archive, draft, clock, started>>

\* Variant: VERIFYING is set on the local object only, not persisted.
FinSetVerifyingLocally(f) ==
    /\ fin[f].pc = "set_verifying"
    /\ fin' = [fin EXCEPT ![f].pc = "list_raw"]
    /\ UNCHANGED <<tmp, ingestVars, svcVars, collections, archive, draft, clock, started>>

\* update_collection({"status": "verifying"}), before the try block.
FinSetVerifying(f) ==
    /\ fin[f].pc = "set_verifying"
    /\ collections' = UpdateCollection(collections, fin[f].collection_id,
                                       [status |-> "verifying"], clock)
    /\ fin' = [fin EXCEPT ![f].pc = "list_raw"]
    /\ UNCHANGED <<tmp, ingestVars, svcVars, archive, draft, clock, started>>

FinSetVerifyingFails(f) ==
    /\ fin[f].pc = "set_verifying"
    /\ FinFinish(f, "DatabaseError")
    /\ UNCHANGED <<tmp, ingestVars, svcVars, collections, archive, draft, clock, started>>

\* raw_files = await globus.list_directory(raw_path)
FinListRaw(f, listing) ==
    /\ fin[f].pc = "list_raw"
    /\ fin' = [fin EXCEPT ![f].pc = "list_root", ![f].listed = 1,
                            ![f].raw_files = listing]
    /\ UNCHANGED <<tmp, ingestVars, svcVars, collections, archive, draft, clock, started>>

FinListRawFails(f, error) ==
    /\ fin[f].pc = "list_raw"
    /\ fin' = [fin EXCEPT ![f].pc = "handler", ![f].error = error]
    /\ UNCHANGED <<tmp, ingestVars, svcVars, collections, archive, draft, clock, started>>

\* root_files = await globus.list_directory(globus_path), then the
\* verification up to the updates dict (now = datetime.utcnow()).
FinListRoot(f, listing) ==
    /\ fin[f].pc = "list_root"
    /\ fin' = [fin EXCEPT
          ![f].pc = "write",
          ![f].listed = 2,
          ![f].root_files = listing,
          ![f].updates = VerificationUpdates(fin[f].raw_files, listing, clock)]
    /\ clock' = clock + 1
    /\ UNCHANGED <<tmp, ingestVars, svcVars, collections, archive, draft, started>>

FinListRootFails(f, error) ==
    /\ fin[f].pc = "list_root"
    /\ fin' = [fin EXCEPT ![f].pc = "handler", ![f].error = error]
    /\ UNCHANGED <<tmp, ingestVars, svcVars, collections, archive, draft, clock, started>>

\* await db.update_collection(collection_id, updates)
FinWriteResult(f) ==
    /\ fin[f].pc = "write"
    /\ collections' = UpdateCollection(collections, fin[f].collection_id,
                                       fin[f].updates, clock)
    /\ fin' = [fin EXCEPT ![f].pc = "reread"]
    /\ UNCHANGED <<tmp, ingestVars, svcVars, archive, draft, clock, started>>

FinWriteResultFails(f) ==
    /\ fin[f].pc = "write"
    /\ fin' = [fin EXCEPT ![f].pc = "handler", ![f].error = "DatabaseError"]
    /\ UNCHANGED <<tmp, ingestVars, svcVars, collections, archive, draft, clock, started>>

\* updated_dict = await db.get_collection(collection_id); return it.
FinReread(f) ==
    /\ fin[f].pc = "reread"
    /\ FinFinish(f, "returned")
    /\ UNCHANGED <<tmp, ingestVars, svcVars, collections, archive, draft, clock, started>>

FinRereadFails(f) ==
    /\ fin[f].pc = "reread"
    /\ fin' = [fin EXCEPT ![f].pc = "handler", ![f].error = "DatabaseError"]
    /\ UNCHANGED <<tmp, ingestVars, svcVars, collections, archive, draft, clock, started>>

\* Variant: the except clauses re-raise without recording the failure.
FinHandlerWithoutUpdate(f) ==
    /\ fin[f].pc = "handler"
    /\ FinFinish(f, "CollectionServiceError")
    /\ UNCHANGED <<tmp, ingestVars, svcVars, collections, archive, draft, clock, started>>

\* except clauses: update_collection(FAILED, [error_msg]), then raise
\* CollectionServiceError(error_msg).
FinHandler(f) ==
    /\ fin[f].pc = "handler"
    /\ collections' = UpdateCollection(collections, fin[f].collection_id,
                                       FailureUpdates(fin[f].error), clock)
    /\ FinFinish(f, "CollectionServiceError")
    /\ UNCHANGED <<tmp, ingestVars, svcVars, archive, draft, clock, started>>

\* update_collection raises inside the except clause.
FinHandlerFails(f) ==
    /\ fin[f].pc = "handler"
    /\ FinFinish(f, "DatabaseError")
    /\ UNCHANGED <<tmp, ingestVars, svcVars, collections, archive, draft, clock, started>>

FinalizeStep(f) ==
    \/ \E collection_id \in CollectionIds : FinStart(f, collection_id)
    \/ FinGet(f)
    \/ FinGetFails(f)
    \/ FinSetVerifying(f)
    \/ FinSetVerifyingFails(f)
    \/ \E listing \in RawListings : FinListRaw(f, listing)
    \/ \E error \in ListingErrors : FinListRawFails(f, error)
    \/ \E listing \in RootListings : FinListRoot(f, listing)
    \/ \E error \in ListingErrors : FinListRootFails(f, error)
    \/ FinWriteResult(f)
    \/ FinWriteResultFails(f)
    \/ FinReread(f)
    \/ FinRereadFails(f)
    \/ FinHandler(f)
    \/ FinHandlerFails(f)

Init ==
    /\ settings \in [enable_metadata_extraction : BOOLEAN]
    /\ artifacts = << >>
    /\ store = {}
    /\ call = [c \in Calls |-> IdleCall]
    /\ collections = << >>
    /\ archive = {}
    /\ draft = [d \in Drafts |-> IdleDraft]
    /\ fin = [f \in Finalizes |-> IdleFinalize]
    /\ clock = 1
    /\ started = [draft |-> 0, fin |-> 0]
    /\ op = IdleOp
    /\ seen = NothingSeen
    /\ tmp = {}

Next ==
    \/ \E c \in Calls : IngestStep(c)
    \/ \E a \in Calls : FinalizeIngestion(a)

Spec == Init /\ [][Next]_vars

InitColl == Init /\ settings.enable_metadata_extraction

NextColl ==
    \/ \E d \in Drafts : DraftStep(d)
    \/ \E f \in Finalizes : FinalizeStep(f)

SpecColl == InitColl /\ [][NextColl]_vars

\* One ingest_artifact call, finalize_ingestion, and direct calls on the
\* supporting services at any point in between.
NextServices ==
    \/ IngestStep(1)
    \/ FinalizeIngestion(1)
    \/ ServiceStep

SpecServices == Init /\ [][NextServices]_vars

\* One ingest_artifact call, register_location calls, and the queries on
\* the storage locations.
NextLocations ==
    \/ IngestStep(1)
    \/ LocationQueryStep

SpecLocations == InitColl /\ [][NextLocations]_vars

\* One ingest_artifact call, log_event calls, and the queries on the
\* preservation events.
NextEvents ==
    \/ IngestStep(1)
    \/ TimePasses
    \/ EventQueryStep

SpecEvents == InitColl /\ [][NextEvents]_vars

\* Calls on the fixity service, over every checksum map.
NextFixity ==
    \/ \E checksums \in ChecksumMaps : GenerateFixityInfoCall(checksums)
    \/ \E expected, actual \in ChecksumMaps : VerifyChecksumsCall(expected, actual)

SpecFixity == InitColl /\ [][NextFixity]_vars

\* build_storage_path calls, one after the other, while time passes.
NextPaths ==
    \/ TimePasses
    \/ \E artifact_id \in AskedArtifactIds, filename \in PathFilenames,
          t \in StorageType, date \in PathDates \cup {NoDate} :
          BuildStoragePathCall(artifact_id, filename, t, date)

SpecPaths == InitColl /\ [][NextPaths]_vars

\* ingest_artifact calls in worker processes, all with the same filename.
NextWorkers == \E c \in Calls : WorkerStep(c)

SpecWorkers == InitColl /\ [][NextWorkers]_vars

\* Overlapping create_draft requests.
InitDrafts ==
    /\ settings = [enable_metadata_extraction |-> TRUE]
    /\ artifacts = << >>
    /\ store = {}
    /\ call = [c \in Calls |-> IdleCall]
    /\ collections = << >>
    /\ archive = {}
    /\ draft = [d \in ConcurrentDrafts |-> IdleDraft]
    /\ fin = [f \in Finalizes |-> IdleFinalize]
    /\ clock = 1
    /\ started = [draft |-> 0, fin |-> 0]
    /\ op = IdleOp
    /\ seen = NothingSeen
    /\ tmp = {}

NextDrafts == \E d \in ConcurrentDrafts : DraftStepConcurrent(d)

SpecDrafts == InitDrafts /\ [][NextDrafts]_vars

\* Overlapping finalize_collection requests: the HTTP server awaits each
\* handler independently, so a request starts whatever the others are doing.
ConcurrentFinalizes == 1..MaxConcurrent

\* A create_draft request that meets no failure.
DraftStepPlain(d) ==
    \/ DraftStart(d, [title |-> <<"M", "y", " ", "T", "!", "!">>, slug |-> << >>])
    \/ \E suffix \in Suffixes : DraftCheckSlug(d, suffix)
    \/ \E date \in Dates : DraftInsert(d, date)
    \/ DraftMkdir(d)

\* What the directory client answers while requests overlap.
OverlapRawListings == {<< >>, <<File("a.wav", 3), Dir("nested"), File("b.wav", 4)>>}
OverlapRootListings == {<<Dir("raw"), Dir("processed")>>}
OverlapListingErrors == {"GlobusServiceError"}

\* The overlapping requests all name the same collection, and they come
\* after the create_draft request that may have made it.
FinStartConcurrent(f, collection_id) ==
    /\ fin[f].pc = "idle"
    /\ \A d \in Drafts : draft[d].pc = "done"
    /\ \A g \in DOMAIN fin : fin[g].pc # "idle" => fin[g].collection_id = collection_id
    /\ fin' = [fin EXCEPT ![f] = [IdleFinalize EXCEPT
                                      !.pc = "get",
                                      !.collection_id = collection_id]]
    /\ UNCHANGED <<tmp, ingestVars, svcVars, collections, archive, draft, clock, started>>

\* The steps of finalize_collection that write to the database and succeed
\* or only read, list or raise outside the database.
FinalizeStepWriting(f) ==
    \/ \E collection_id \in CollectionIds : FinStartConcurrent(f, collection_id)
    \/ FinGet(f)
    \/ FinGetFails(f)
    \/ FinSetVerifying(f)
    \/ \E listing \in OverlapRawListings : FinListRaw(f, listing)
    \/ \E error \in OverlapListingErrors : FinListRawFails(f, error)
    \/ \E listing \in OverlapRootListings : FinListRoot(f, listing)
    \/ \E error \in OverlapListingErrors : FinListRootFails(f, error)
    \/ FinWriteResult(f)
    \/ FinReread(f)
    \/ FinRereadFails(f)
    \/ FinHandler(f)

FinalizeStepConcurrent(f) ==
    \/ FinalizeStepWriting(f)
    \/ FinSetVerifyingFails(f)
    \/ FinWriteResultFails(f)
    \/ FinHandlerFails(f)

InitFinalizers ==
    /\ settings = [enable_metadata_extraction |-> TRUE]
    /\ artifacts = << >>
    /\ store = {}
    /\ call = [c \in Calls |-> IdleCall]
    /\ collections = << >>
    /\ archive = {}
    /\ draft = [d \in Drafts |-> IdleDraft]
    /\ fin = [f \in ConcurrentFinalizes |-> IdleFinalize]
    /\ clock = 1
    /\ started = [draft |-> 0, fin |-> 0]
    /\ op = IdleOp
    /\ seen = NothingSeen
    /\ tmp = {}

NextFinalizers ==
    \/ \E d \in Drafts : DraftStepPlain(d)
    \/ \E f \in ConcurrentFinalizes : FinalizeStepConcurrent(f)

SpecFinalizers == InitFinalizers /\ [][NextFinalizers]_vars

\* Overlapping finalize_collection requests whose database writes all succeed.
NextFinalizersWriting ==
    \/ \E d \in Drafts : DraftStepPlain(d)
    \/ \E f \in ConcurrentFinalizes : FinalizeStepWriting(f)

SpecFinalizersWriting == InitFinalizers /\ [][NextFinalizersWriting]_vars

\* One create_draft request, over every title.
NextSlug == \E d \in Drafts : DraftStepTitle(d)

SpecSlug == InitColl /\ [][NextSlug]_vars

(***************************************************************************)
(* Ingestion: vocabulary of the properties                                 *)
(***************************************************************************)
\* Call c takes the step that ends it (it returns or its error leaves it).
Finishes(c) == call[c].pc # "done" /\ call'[c].pc = "done"

HotLocations(a) ==
    {i \in DOMAIN a.storage_locations : a.storage_locations[i].storage_type = "hot"}

IngestionEvents(a, outcome) ==
    {i \in DOMAIN a.preservation_events :
        /\ a.preservation_events[i].event_type = "ingestion"
        /\ a.preservation_events[i].outcome = outcome}

ReadyAndComplete(a) ==
    /\ a.status = "ready"
    /\ HotLocations(a) # {}
    /\ IngestionEvents(a, "success") # {}

FailedAndLogged(a) ==
    /\ a.status = "failed"
    /\ IngestionEvents(a, "failure") # {}

C2_Original ==
    [][\A c \in Calls :
          Finishes(c) /\ call'[c].artifact_id # 0 /\ call'[c].exc # "" =>
              LET a == artifacts'[call'[c].artifact_id]
                  n == Len(a.preservation_events)
              IN /\ n > 0
                 /\ a.preservation_events[n] = FailureEvent(call'[c].exc, "api")
                 /\ a.status = "failed"
                 /\ call'[c].result = "IngestionServiceError"]_vars

\* C3: a call that returned left exactly one storage location, hot, with
\* size_bytes the number of bytes submitted, and exactly one ingestion event,
\* a success; a call whose upload failed left no storage location.
C3_LocationsAndEvents ==
    \A c \in Calls :
        call[c].pc = "done" /\ call[c].artifact_id # 0 =>
            LET a == artifacts[call[c].artifact_id]
            IN /\ call[c].result = "returned" =>
                    /\ Len(a.storage_locations) = 1
                    /\ a.storage_locations[1].storage_type = "hot"
                    /\ a.storage_locations[1].size_bytes = Len(call[c].content)
                    /\ Cardinality(IngestionEvents(a, "success")) = 1
                    /\ IngestionEvents(a, "failure") = {}
                    /\ IngestionEvents(a, "warning") = {}
               /\ call[c].exc = "upload" => a.storage_locations = << >>

C3_Witness ==
    \E c, d \in Calls :
        /\ call[c].pc = "done" /\ call[c].result = "returned"
        /\ Len(call[c].content) = 2
        /\ artifacts[call[c].artifact_id].storage_locations[1].size_bytes = 2
        /\ call[d].pc = "done" /\ call[d].exc = "upload"
        /\ artifacts[call[d].artifact_id].storage_locations = << >>

\* C4: every step of a call that has no artifact record after it (so the
\* whole of a call that fails in the read or in the insert) leaves the
\* artifact documents and the object store as they were.
C4_NoPartialState ==
    [][\A c \in Calls :
          call'[c] # call[c] /\ call'[c].artifact_id = 0 =>
              artifacts' = artifacts /\ store' = store]_vars

C4_Witness ==
    \E c \in Calls :
        /\ call[c].pc = "done" /\ call[c].exc = "insert"
        /\ call[c].artifact_id = 0
        /\ call[c].result = "IngestionServiceError"
        /\ artifacts = << >> /\ store = {}

\* C5 (as claimed): a failed artifact never becomes ready, and a ready
\* artifact never becomes anything else.
C5_Original ==
    [][\A a \in DOMAIN artifacts :
          /\ artifacts[a].status = "failed" => artifacts'[a].status # "ready"
          /\ artifacts[a].status = "ready" => artifacts'[a].status = "ready"]_vars

(***************************************************************************)
(* Collections: vocabulary of the properties                               *)
(***************************************************************************)
\* Finalize call f takes the step that ends it (it returns or raises).
FinFinishes(f) == fin[f].pc # "done" /\ fin'[f].pc = "done"

\* The call has passed the write of status VERIFYING.
WroteVerifying(f) == fin[f].pc \notin {"idle", "done", "get", "set_verifying"}

\* The raw/ listing of the call returned.
RawListingReturned(f) == fin[f].listed >= 1

\* Both listings of the call returned (the updates dict was built).
BothListingsReturned(f) == fin[f].listed = 2

\* The document the call is about, after the step.
DocAfter(f) == collections'[GetCollection(collections', fin[f].collection_id)]

NoFileEntries(listing) == \A i \in DOMAIN listing : listing[i].type # "file"

ManifestListed(listing) ==
    \E i \in DOMAIN listing :
        listing[i].name = "manifest.json" /\ listing[i].type = "file"

Contains(seq, x) == \E i \in DOMAIN seq : seq[i] = x

\* sealed_at carries the time of the verification the call just made.
SealedAtStamped(f) ==
    /\ DocAfter(f).sealed_at # 0
    /\ DocAfter(f).sealed_at = DocAfter(f).verified_at

\* C6 (as claimed): once a collection is SEALED or FAILED its status never
\* changes, and no field of a SEALED collection is modified by a later step.
C6_Original ==
    [][\A i \in DOMAIN collections :
          /\ collections[i].status \in {"sealed", "failed"} =>
                 collections'[i].status = collections[i].status
          /\ collections[i].status = "sealed" =>
                 collections'[i] = collections[i]]_vars

\* C7 (as claimed): a finalize_collection call that has written VERIFYING
\* leaves the collection SEALED or FAILED when it returns or raises.
C7_Original ==
    [][\A f \in Finalizes :
          FinFinishes(f) /\ WroteVerifying(f) =>
              DocAfter(f).status \in {"sealed", "failed"}]_vars

\* C8 (as claimed): when a directory listing raised, the call ends with the
\* collection FAILED, verification_errors holding exactly the synthetic
\* message, and the caller receiving CollectionServiceError for that error.
C8_Original ==
    [][\A f \in Finalizes :
          FinFinishes(f) /\ fin[f].error \in ListingErrors =>
              /\ DocAfter(f).status = "failed"
              /\ DocAfter(f).verification_errors =
                     <<FailureMessage(fin[f].error)>>
              /\ fin'[f].result = "CollectionServiceError"
              /\ fin'[f].error = fin[f].error]_vars

C11_UnknownIdRaises ==
    [][\A f \in Finalizes :
          /\ fin[f].pc \notin {"idle", "done"}
          /\ GetCollection(collections, fin[f].collection_id) = 0
          /\ fin'[f] # fin[f]
          => /\ fin[f].pc = "get"
             /\ fin'[f].pc = "done"
             /\ fin'[f].result \in {"CollectionServiceError", "DatabaseError"}
             /\ fin'[f].listed = 0
             /\ fin'[f].error \notin ListingErrors
             /\ collections' = collections]_vars

\* A call for an unknown id ended with the not-found error while another
\* collection exists.
C11_Witness ==
    \E f \in Finalizes :
        /\ fin[f].pc = "done"
        /\ fin[f].error = "NotFound"
        /\ fin[f].result = "CollectionServiceError"
        /\ GetCollection(collections, fin[f].collection_id) = 0
        /\ collections # << >>

\* Draft call d takes the step that ends it (it returns or raises).
DraftFinishes(d) == draft[d].pc # "done" /\ draft'[d].pc = "done"

\* C12 (as claimed): a create_draft call that has persisted its collection
\* returns successfully, with the collection in DRAFT, however the creation
\* of any of the three directories fails.
C12_Original ==
    [][\A d \in Drafts :
          DraftFinishes(d) /\ draft[d].pc = "mkdir" =>
              /\ draft'[d].result = "returned"
              /\ LET i == GetCollection(collections', draft[d].collection_id)
                 IN i # 0 /\ collections'[i].status = "draft"]_vars

\* C13: no two persisted collections have the same slug, however the
\* create_draft calls overlap.
C13_SlugsUnique ==
    \A i, j \in DOMAIN collections :
        i # j => collections[i].slug # collections[j].slug

\* A call passed the slug lookup, and before its insert another call
\* persisted a collection under the slug it is about to insert.
C13_Witness ==
    \E d \in DOMAIN draft :
        /\ draft[d].pc = "insert"
        /\ GetCollectionBySlug(collections, draft[d].slug) # 0

(***************************************************************************)
(* Slugs: vocabulary of the properties                                     *)
(***************************************************************************)
\* The title in lower case.
Lowered(title) == [i \in DOMAIN title |-> Lower(title[i])]

\* Positions of the title whose lower-cased character is in a-z0-9.
KeptPositions(title) ==
    {i \in DOMAIN title : \E j \in DOMAIN LowerLetters :
                              Lowered(title)[i] = LowerLetters[j]}
    \cup {i \in DOMAIN title : title[i] \in Digits}

\* The kept positions in increasing order.
KeptInOrder(title) ==
    LET kept == KeptPositions(title)
    IN [n \in 1..Cardinality(kept) |->
           CHOOSE i \in kept : Cardinality({j \in kept : j <= i}) = n]

\* The characters at the first n positions of pos, with one '-' wherever two
\* neighbouring positions are not adjacent in the title.
RECURSIVE JoinedUpTo(_, _, _)
JoinedUpTo(low, pos, n) ==
    IF n = 0 THEN << >>
    ELSE JoinedUpTo(low, pos, n - 1)
         \o (IF n > 1 /\ pos[n] > pos[n - 1] + 1 THEN <<"-">> ELSE << >>)
         \o <<low[pos[n]]>>

\* The slug the rule of C14 gives for a title.
ExpectedSlug(title) ==
    LET pos == KeptInOrder(title)
        full == JoinedUpTo(Lowered(title), pos, Len(pos))
    IN [i \in 1..(IF Len(full) < 50 THEN Len(full) ELSE 50) |-> full[i]]

C15_LocationFieldsFixed ==
    [][\A i \in DOMAIN collections :
          /\ collections'[i].globus_path = collections[i].globus_path
          /\ collections'[i].globus_endpoint_id = collections[i].globus_endpoint_id
          /\ collections'[i].slug = collections[i].slug
          /\ collections'[i].collection_id = collections[i].collection_id]_vars

\* A collection has been through a sealing call and through a call that
\* ended in an except clause.
C15_Witness ==
    \E i \in DOMAIN collections :
        /\ collections[i].status = "failed"
        /\ collections[i].sealed_at # 0
        /\ Len(collections[i].verification_errors) = 1
        /\ collections[i].verification_errors[1] # ErrRawEmpty
        /\ collections[i].verification_errors[1] # WarnNoManifest

(***************************************************************************)
(* Supporting services: vocabulary of the properties                       *)
(***************************************************************************)
IsPrefix(s, t) == Len(s) <= Len(t) /\ \A i \in DOMAIN s : s[i] = t[i]

\* C16: every step (log_event, register_location, update_verification_time,
\* get_locations, the status updates, and every step of ingest_artifact on
\* its success and failure paths) leaves the preservation events an
\* artifact had as a prefix of the events it has afterwards.
C16_EventsAppendOnly ==
    [][\A a \in DOMAIN artifacts :
          IsPrefix(artifacts[a].preservation_events,
                   artifacts'[a].preservation_events)]_vars

\* An artifact carries an event logged directly, then the failure event of
\* its ingestion, then another event logged directly.
C16_Witness ==
    \E a \in DOMAIN artifacts :
        LET events == artifacts[a].preservation_events
        IN /\ Len(events) = 3
           /\ events[1].event_type # "ingestion"
           /\ events[2].event_type = "ingestion" /\ events[2].outcome = "failure"
           /\ events[3].event_type # "ingestion"
           /\ artifacts[a].status = "failed"

\* The storage locations of the artifact the last get_locations read, as a
\* get_locations call would return them now.
LocationsNow == artifacts[seen.artifact_id].storage_locations

\* C17 (as claimed): every record a get_locations call returned is found
\* unchanged at the same index in what get_locations returns later.
C17_Original ==
    seen.artifact_id # 0 => IsPrefix(seen.locations, LocationsNow)

\* C17 (amended): every record a get_locations call returned is found at
\* the same index in what get_locations returns later, unchanged in every
\* field other than verified_at.
C17_ReadsStayValid ==
    seen.artifact_id # 0 =>
        /\ Len(seen.locations) <= Len(LocationsNow)
        /\ \A i \in DOMAIN seen.locations :
              [LocationsNow[i] EXCEPT !.verified_at = seen.locations[i].verified_at]
                  = seen.locations[i]

\* After a get_locations call returned a record, update_verification_time
\* stamped that record.
C17_Witness ==
    /\ seen.artifact_id # 0
    /\ seen.locations # << >>
    /\ seen.locations[1].verified_at = 0
    /\ LocationsNow[1].verified_at # 0

\* C18 (as claimed): a register_location call that returned a location was
\* made for an existing artifact, and that artifact holds the record.
C18_Original ==
    op.name = "register_location" /\ op.result = "returned" =>
        /\ op.artifact_id \in DOMAIN artifacts
        /\ \E i \in DOMAIN artifacts[op.artifact_id].storage_locations :
              [artifacts[op.artifact_id].storage_locations[i]
                   EXCEPT !.verified_at = 0] = op.value[1]

\* C19 (as claimed): a log_event call that returned an event was made for
\* an existing artifact, and that artifact's audit trail holds the event.
C19_Original ==
    op.name = "log_event" /\ op.result = "returned" =>
        /\ op.artifact_id \in DOMAIN artifacts
        /\ Contains(artifacts[op.artifact_id].preservation_events, op.value[1])

\* The step is an update_verification_time call that returned.
VerificationTimeUpdated ==
    /\ op'.count = op.count + 1
    /\ op'.name = "update_verification_time"
    /\ op'.result = "returned"

\* Indices of the locations of the tier the call named, before the call.
TierLocations ==
    IF op'.artifact_id \in DOMAIN artifacts
    THEN {i \in DOMAIN artifacts[op'.artifact_id].storage_locations :
             artifacts[op'.artifact_id].storage_locations[i].storage_type
                 = op'.storage_type}
    ELSE {}

\* C20 (as claimed): an update_verification_time call that returns has set
\* verified_at on the location of the given tier and changed nothing else;
\* when there is no such location it changed nothing and its result tells
\* the caller so (false).
C20_Original ==
    [][VerificationTimeUpdated =>
          IF TierLocations = {}
          THEN artifacts' = artifacts /\ op'.value = <<FALSE>>
          ELSE LET a == op'.artifact_id
                   first == CHOOSE i \in TierLocations :
                                \A j \in TierLocations : i <= j
               IN artifacts' =
                    [artifacts EXCEPT
                        ![a].storage_locations[first].verified_at = clock]]_vars

\* A query step that answered under the given name.
Asked(name) == op' # op /\ op'.name = name

\* The locations of the tier a query named, in the artifact it named,
\* before the query; empty for an unknown artifact.
AskedTierLocations ==
    IF op'.artifact_id \in DOMAIN artifacts
    THEN {i \in DOMAIN artifacts[op'.artifact_id].storage_locations :
             artifacts[op'.artifact_id].storage_locations[i].storage_type
                 = op'.storage_type}
    ELSE {}

\* C21: a get_primary_location call that returns gives the lowest-index
\* storage location of the requested tier, also when the artifact has
\* several of that tier, and gives None exactly when it has none.
C21_PrimaryIsFirstOfTier ==
    [][Asked("get_primary_location") /\ op'.result = "returned" =>
          /\ op'.artifact_id \in DOMAIN artifacts
          /\ IF AskedTierLocations = {}
             THEN op'.value = << >>
             ELSE LET first == CHOOSE i \in AskedTierLocations :
                                  \A j \in AskedTierLocations : i <= j
                  IN op'.value =
                       <<artifacts[op'.artifact_id].storage_locations[first]>>]_vars

\* get_primary_location answered with the first of two different hot
\* locations of the artifact.
C21_Witness ==
    /\ op.name = "get_primary_location" /\ op.result = "returned"
    /\ op.storage_type = "hot"
    /\ op.artifact_id \in DOMAIN artifacts
    /\ LET locations == artifacts[op.artifact_id].storage_locations
       IN /\ Len(locations) = 2
          /\ locations[1].storage_type = "hot" /\ locations[2].storage_type = "hot"
          /\ locations[1] # locations[2]
          /\ op.value = <<locations[1]>>

\* C22: replicate_to_archive returns the pending acknowledgment exactly
\* when the artifact has a hot location and raises otherwise (a failed
\* read of the artifact raises too); either way no location is added, no
\* event is logged and the status stays: the artifacts are unchanged.
C22_ReplicationStubWritesNothing ==
    [][Asked("replicate_to_archive") =>
          /\ artifacts' = artifacts
          /\ store' = store
          /\ op'.result \in {"returned", "StorageLocationServiceError"}
          /\ op'.result = "returned" =>
                /\ op'.artifact_id \in DOMAIN artifacts
                /\ HotLocations(artifacts[op'.artifact_id]) # {}
                /\ op'.value = <<PendingReplication(op'.artifact_id)>>
          /\ op'.result # "returned" /\ op'.value # <<ReadFailed>> =>
                \/ op'.artifact_id \notin DOMAIN artifacts
                \/ HotLocations(artifacts[op'.artifact_id]) = {}]_vars

\* replicate_to_archive acknowledged the replication of an ingested
\* artifact, which still has its hot location only and its ingestion event
\* only.
C22_Witness ==
    /\ op.name = "replicate_to_archive" /\ op.result = "returned"
    /\ op.artifact_id \in DOMAIN artifacts
    /\ call[1].pc = "done"
    /\ LET a == artifacts[op.artifact_id]
       IN /\ a.status = "processing"
          /\ Len(a.storage_locations) = 1
          /\ a.storage_locations[1].storage_type = "hot"
          /\ Len(a.preservation_events) = 1

\* The events of the artifact a query named, before the query.
AskedEvents == artifacts[op'.artifact_id].preservation_events

\* The positions of the events of the type a query named.
AskedTypePositions ==
    {i \in DOMAIN AskedEvents : AskedEvents[i].event_type = op'.event_type}

\* C23: a get_events call that returns gives, without a filter, all events
\* of the artifact in storage order and, with a type filter, exactly the
\* events of that type in the relative order in which they are stored.
C23_EventsInStorageOrder ==
    [][Asked("get_events") /\ op'.result = "returned" =>
          /\ op'.artifact_id \in DOMAIN artifacts
          /\ IF op'.event_type = ""
             THEN op'.value = AskedEvents
             ELSE /\ Len(op'.value) = Cardinality(AskedTypePositions)
                  /\ \E f \in [DOMAIN op'.value -> AskedTypePositions] :
                        /\ \A k, l \in DOMAIN f : k < l => f[k] < f[l]
                        /\ \A k \in DOMAIN f : op'.value[k] = AskedEvents[f[k]]]_vars

\* get_events with a type filter answered with the first and the third of
\* three stored events, leaving out the ingestion event between them.
C23_Witness ==
    /\ op.name = "get_events" /\ op.result = "returned"
    /\ op.event_type = "fixity_check"
    /\ op.artifact_id \in DOMAIN artifacts
    /\ LET events == artifacts[op.artifact_id].preservation_events
       IN /\ Len(events) = 3
          /\ events[2].event_type = "ingestion"
          /\ events[1] # events[3]
          /\ op.value = <<events[1], events[3]>>

\* C24: a get_latest_event call that returns gives an event of the
\* requested type whose timestamp is at least that of every event of that
\* type on the artifact, and None exactly when the artifact has no event
\* of that type.
C24_LatestHasMaxTimestamp ==
    [][Asked("get_latest_event") /\ op'.result = "returned" =>
          /\ op'.artifact_id \in DOMAIN artifacts
          /\ IF AskedTypePositions = {}
             THEN op'.value = << >>
             ELSE /\ Len(op'.value) = 1
                  /\ \E i \in AskedTypePositions : op'.value[1] = AskedEvents[i]
                  /\ \A j \in AskedTypePositions :
                        AskedEvents[j].timestamp <= op'.value[1].timestamp]_vars

\* get_latest_event answered with an event that is stored before an event
\* of the same type with an earlier timestamp.
C24_Witness ==
    /\ op.name = "get_latest_event" /\ op.result = "returned"
    /\ op.artifact_id \in DOMAIN artifacts
    /\ LET events == artifacts[op.artifact_id].preservation_events
       IN \E i, j \in DOMAIN events :
             /\ i < j
             /\ events[i].event_type = op.event_type
             /\ events[j].event_type = op.event_type
             /\ events[j].timestamp < events[i].timestamp
             /\ op.value = <<events[i]>>

\* C25: generate_fixity_info fails whenever md5 or sha256 is missing from
\* the checksum map; otherwise checksum_md5 and checksum_sha256 are the
\* map's values and the algorithm list names exactly those of md5, sha256
\* and sha512 that the map holds, each once.
C25_FixityInfoFromChecksums ==
    op.name = "generate_fixity_info" =>
        IF {"md5", "sha256"} \subseteq DOMAIN op.checksums
        THEN /\ op.value # FixityServiceError
             /\ op.value.checksum_md5 = op.checksums["md5"]
             /\ op.value.checksum_sha256 = op.checksums["sha256"]
             /\ {op.value.algorithm[i] : i \in DOMAIN op.value.algorithm}
                   = DOMAIN op.checksums \cap {"md5", "sha256", "sha512"}
             /\ Len(op.value.algorithm) = Cardinality(DOMAIN op.checksums)
        ELSE op.value = FixityServiceError

\* generate_fixity_info was given md5, sha256 and sha512 with different
\* digests and named all three.
C25_Witness ==
    /\ op.name = "generate_fixity_info"
    /\ DOMAIN op.checksums = {"md5", "sha256", "sha512"}
    /\ op.checksums["md5"] # op.checksums["sha256"]
    /\ op.value # FixityServiceError
    /\ Len(op.value.algorithm) = 3

\* The algorithms of expected that are absent from actual or differ there.
Disagreeing ==
    {algo \in DOMAIN op.expected :
        algo \notin DOMAIN op.actual \/ op.actual[algo] # op.expected[algo]}

\* C26: verify_checksums gives all_match true exactly when every algorithm
\* of expected is in actual with an equal digest; the mismatch list has
\* exactly one entry for each algorithm of expected that is absent from
\* actual or differs, and all_match is true exactly when the list is empty.
C26_MismatchPerAlgorithm ==
    op.name = "verify_checksums" =>
        LET mismatches == op.value.mismatches
        IN /\ op.value.all_match = (Disagreeing = {})
           /\ op.value.all_match = (mismatches = << >>)
           /\ Len(mismatches) = Cardinality(Disagreeing)
           /\ {mismatches[i][1] : i \in DOMAIN mismatches} = Disagreeing

\* verify_checksums met one equal digest, one differing digest and one
\* algorithm that was not calculated.
C26_Witness ==
    /\ op.name = "verify_checksums"
    /\ DOMAIN op.expected = {"md5", "sha256", "sha512"}
    /\ DOMAIN op.actual = {"md5", "sha256"}
    /\ op.actual["md5"] = op.expected["md5"]
    /\ op.actual["sha256"] # op.expected["sha256"]
    /\ ~op.value.all_match
    /\ Len(op.value.mismatches) = 2

\* Two build_storage_path calls, one made after the other.
TwoPathCalls == op.name = "build_storage_path" /\ op'.name = "build_storage_path"

\* The number a sequence of decimal digits writes.
RECURSIVE Number(_)
Number(digits) ==
    IF digits = << >> THEN 0
    ELSE 10 * Number(SubSeq(digits, 1, Len(digits) - 1)) + digits[Len(digits)]

\* C27 (as claimed): two build_storage_path calls with equal artifact_id,
\* filename, storage_type and date give the same path, and two calls whose
\* dates differ give paths that differ in the year or month segment.
C27_Original ==
    [][TwoPathCalls =>
          /\ (/\ op.artifact_id = op'.artifact_id
              /\ op.filename = op'.filename
              /\ op.storage_type = op'.storage_type
              /\ op.date = op'.date) => op.value = op'.value
          /\ (op.date # NoDate /\ op'.date # NoDate /\ op.date # op'.date) =>
                <<op.value.year, op.value.month>>
                    # <<op'.value.year, op'.value.month>>]_vars

\* C27 (amended): the path of a call is artifacts/YYYY/MM/artifact_id/
\* filename with the year and month of the date given, or of the time of
\* the call when no date is given; of two calls that are given dates, the
\* paths are equal exactly when artifact_id, filename, year and month are,
\* whatever the storage_type and the day.
C27_PathFromYearAndMonth ==
    [][TwoPathCalls =>
          /\ LET date == IF op'.date = NoDate THEN op'.now ELSE op'.date
             IN /\ Len(op'.value.year) = 4 /\ Number(op'.value.year) = date.year
                /\ Len(op'.value.month) = 2 /\ Number(op'.value.month) = date.month
                /\ op'.value.artifact_id = op'.artifact_id
                /\ op'.value.filename = op'.filename
                /\ DOMAIN op'.value = {"year", "month", "artifact_id", "filename"}
          /\ (op.date # NoDate /\ op'.date # NoDate) =>
                ((op.value = op'.value) <=>
                    /\ op.artifact_id = op'.artifact_id
                    /\ op.filename = op'.filename
                    /\ op.date.year = op'.date.year
                    /\ op.date.month = op'.date.month)]_vars

\* A call for the archive tier with the 15th of a month gave the path that
\* the 1st of that month gives.
C27_Witness ==
    /\ op.name = "build_storage_path"
    /\ op.date # NoDate /\ op.date.day = 15
    /\ op.storage_type = "archive"
    /\ op.value = BuildStoragePath(op.artifact_id, op.filename,
                                   [year |-> 2026, month |-> 1, day |-> 1])

\* The object the hot store holds for a call.
StoredFor(c) == {o \in store : o.path = call[c].storage_path}

\* C28 (as claimed): ingest_artifact calls that overlap create different
\* artifacts and do not interfere, also with the same filename: no call
\* fails for want of its temporary file, and the object stored for a call
\* holds the bytes that call was given.
C28_Original ==
    \A c \in Calls :
        /\ \A b \in Calls \ {c} :
              call[c].artifact_id # 0 => call[b].artifact_id # call[c].artifact_id
        /\ call[c].exc # NoTempFile
        /\ \A o \in StoredFor(c) : o.content = call[c].content

\* C29: when ingest_artifact returns, the status it persisted last on the
\* artifact and the status in its response are equal: ready with metadata
\* extraction disabled, processing with it enabled.
C29_ResponseStatusIsPersisted ==
    [][\A c \in Calls :
          Finishes(c) /\ call'[c].result = "returned" =>
              /\ call'[c].artifact_id \in DOMAIN artifacts'
              /\ artifacts'[call'[c].artifact_id].status = call'[c].response_status
              /\ call'[c].response_status =
                    IF settings.enable_metadata_extraction
                    THEN "processing" ELSE "ready"]_vars

\* With metadata extraction disabled a call returned ready for an artifact
\* that is ready.
C29_Witness ==
    \E c \in Calls :
        /\ ~settings.enable_metadata_extraction
        /\ call[c].pc = "done" /\ call[c].result = "returned"
        /\ call[c].response_status = "ready"
        /\ artifacts[call[c].artifact_id].status = "ready"
        /\ Len(call[c].content) = 2

\* C30: an artifact's fixity record is written at its insert, from the
\* checksums of the bytes submitted, and no later step (registering a
\* location, logging an event, updating a verification time, a status
\* update, the failure path of the ingestion, finalize_ingestion) changes it.
C30_FixityWrittenOnce ==
    [][\A a \in DOMAIN artifacts' :
          IF a \in DOMAIN artifacts
          THEN artifacts'[a].fixity = artifacts[a].fixity
          ELSE \E c \in Calls :
                  /\ call[c].pc = "insert" /\ call'[c].artifact_id = a
                  /\ artifacts'[a].fixity.checksum_md5 = <<"md5", call[c].content>>
                  /\ artifacts'[a].fixity.checksum_sha256
                        = <<"sha256", call[c].content>>]_vars

\* A ready artifact with a verified location and a second event still has
\* the fixity record of the bytes it was ingested with.
C30_Witness ==
    \E c \in Calls :
        /\ call[c].pc = "done" /\ call[c].artifact_id # 0
        /\ Len(call[c].content) = 2
        /\ LET a == artifacts[call[c].artifact_id]
           IN /\ a.status = "ready"
              /\ Len(a.storage_locations) >= 1
              /\ a.storage_locations[1].verified_at # 0
              /\ Len(a.preservation_events) >= 2
              /\ a.fixity.checksum_md5 = <<"md5", call[c].content>>
              /\ a.fixity.verified_at = 0

\* The storage locations and events an artifact has, none before its insert.
LocationsOf(arts, a) ==
    IF a \in DOMAIN arts THEN arts[a].storage_locations ELSE << >>
SuccessEventsOf(arts, a) ==
    IF a \in DOMAIN arts THEN IngestionEvents(arts[a], "success") ELSE {}

\* C31: within an ingest_artifact call the steps come in a fixed order: an
\* object is uploaded only for an artifact that was inserted, a hot
\* location is registered only when its object is in the store, the
\* success event is logged only when the location is registered, and the
\* final status is written with the response only when the success event
\* is logged.
C31_StepsInOrder ==
    [][/\ \A o \in store' \ store : o.path.artifact_id \in DOMAIN artifacts
       /\ \A a \in DOMAIN artifacts' :
             /\ \A i \in DOMAIN LocationsOf(artifacts', a) :
                   i > Len(LocationsOf(artifacts, a)) =>
                       /\ a \in DOMAIN artifacts
                       /\ \E o \in store :
                             o.path = LocationsOf(artifacts', a)[i].path
             /\ SuccessEventsOf(artifacts', a) # SuccessEventsOf(artifacts, a) =>
                   /\ a \in DOMAIN artifacts
                   /\ HotLocations(artifacts[a]) # {}
       /\ \A c \in Calls :
             Finishes(c) /\ call'[c].result = "returned" =>
                 SuccessEventsOf(artifacts, call[c].artifact_id) # {}]_vars

\* A call went through all its steps: its object is stored, its location
\* registered, its success event logged and it returned.
C31_Witness ==
    \E c \in Calls :
        /\ call[c].pc = "done" /\ call[c].result = "returned"
        /\ \E o \in store : o.path = call[c].storage_path
        /\ LET a == artifacts[call[c].artifact_id]
           IN /\ Len(a.storage_locations) = 1
              /\ a.storage_locations[1].path = call[c].storage_path
              /\ IngestionEvents(a, "success") # {}

\* The document a finalize call is about, before the step.
DocBefore(f) == collections[GetCollection(collections, fin[f].collection_id)]

\* The step writes a final status on the document of the call.
WritesFinalStatus(f) ==
    /\ fin[f].pc \notin {"idle", "done", "get"}
    /\ collections' # collections
    /\ DocAfter(f).status \in {"sealed", "failed"}

\* C32 (as claimed): from the write of VERIFYING until the final update a
\* reader finds the collection VERIFYING, so the listings are issued with
\* VERIFYING persisted; and no final status is written before both
\* listings have returned.
C32_Original ==
    [][\A f \in Finalizes :
          /\ fin[f].pc \in {"list_raw", "list_root", "write"} =>
                DocBefore(f).status = "verifying"
          /\ WritesFinalStatus(f) => BothListingsReturned(f)]_vars

\* C32 (amended): from the write of VERIFYING until the final update a
\* reader finds the collection VERIFYING, so the listings are issued with
\* VERIFYING persisted; SEALED, and FAILED as a verification result, are
\* written only after both listings have returned; a final status written
\* before that is the FAILED of the except clause, after a listing raised.
C32_VerifyingUntilFinalUpdate ==
    [][\A f \in Finalizes :
          /\ fin[f].pc \in {"list_raw", "list_root", "write"} =>
                DocBefore(f).status = "verifying"
          /\ fin[f].pc = "handler" /\ fin[f].error \in ListingErrors =>
                DocBefore(f).status = "verifying"
          /\ WritesFinalStatus(f) /\ ~BothListingsReturned(f) =>
                /\ fin[f].pc = "handler"
                /\ fin[f].error \in ListingErrors
                /\ DocAfter(f).status = "failed"
          /\ WritesFinalStatus(f) /\ DocAfter(f).status = "sealed" =>
                BothListingsReturned(f) /\ fin[f].pc = "write"]_vars

\* A call holds the raw/ listing and is about to issue the root listing;
\* the collection, sealed by an earlier call, reads VERIFYING.
C32_Witness ==
    \E f \in Finalizes :
        /\ fin[f].pc = "list_root"
        /\ GetCollection(collections, fin[f].collection_id) # 0
        /\ DocBefore(f).status = "verifying"
        /\ DocBefore(f).sealed_at # 0

\* C33 (as claimed): in every state a collection has sealed_at set exactly
\* when its status is SEALED.
C33_Original ==
    \A i \in DOMAIN collections :
        (collections[i].sealed_at # 0) <=> (collections[i].status = "sealed")

\* The messages that block sealing: the empty raw/ folder, and the synthetic
\* message of a verification that raised.
HardErrors ==
    {ErrRawEmpty} \cup
    {FailureMessage(e) : e \in {"GlobusServiceError", "DatabaseError", "Exception"}}

\* C34: whenever a collection's status is SEALED, its actual_artifact_count
\* is at least 1 and its verification_errors holds no hard-error message, in
\* every state that overlapping finalize_collection calls on the same
\* collection can reach.
C34_SealedHasFilesAndNoHardError ==
    \A i \in DOMAIN collections :
        collections[i].status = "sealed" =>
            /\ collections[i].actual_artifact_count >= 1
            /\ \A j \in DOMAIN collections[i].verification_errors :
                   collections[i].verification_errors[j] \notin HardErrors

\* A collection is sealed with a warning while another call on it, which
\* found raw/ empty, is about to write its own verdict.
C34_Witness ==
    \E i \in DOMAIN collections : \E f, g \in DOMAIN fin :
        /\ f # g
        /\ collections[i].status = "sealed"
        /\ collections[i].verification_errors = <<WarnNoManifest>>
        /\ fin[f].pc = "done" /\ fin[f].result = "returned"
        /\ fin[f].collection_id = collections[i].collection_id
        /\ fin[g].pc = "write" /\ fin[g].updates.status = "failed"
        /\ fin[g].collection_id = collections[i].collection_id

\* No finalize_collection call is in flight, and several on collection
\* `collection_id` have completed.
LastFinalizeCompleted(collection_id) ==
    /\ \A f \in DOMAIN fin : fin[f].pc \in {"idle", "done"}
    /\ \E f, g \in DOMAIN fin :
          /\ f # g
          /\ fin[f].pc = "done" /\ fin[f].collection_id = collection_id
          /\ fin[g].pc = "done" /\ fin[g].collection_id = collection_id

\* A completed call on `collection_id` found the collection: it returned, or
\* raised CollectionServiceError from its except clauses.
SomeFinalizeFoundIt(collection_id) ==
    \E f \in DOMAIN fin :
        /\ fin[f].pc = "done" /\ fin[f].collection_id = collection_id
        /\ fin[f].result \in {"returned", "CollectionServiceError"}
        /\ fin[f].error # "NotFound"

\* C35 as stated: when finalize_collection calls on the same collection
\* overlap and every database write succeeds, the status once the last call
\* has completed is SEALED or FAILED, never VERIFYING or DRAFT.
C35_Original ==
    \A i \in DOMAIN collections :
        LastFinalizeCompleted(collections[i].collection_id) =>
            collections[i].status \in {"sealed", "failed"}

\* C35, amended: when finalize_collection calls on the same collection
\* overlap, every database write succeeds, and at least one of the calls got
\* past its get_collection lookup, the status once the last call has
\* completed is SEALED or FAILED, never VERIFYING or DRAFT.
C35_FinalStatusAfterLastCall ==
    \A i \in DOMAIN collections :
        /\ LastFinalizeCompleted(collections[i].collection_id)
        /\ SomeFinalizeFoundIt(collections[i].collection_id)
        => collections[i].status \in {"sealed", "failed"}

\* Two overlapping calls have completed, one returning and one raising from
\* its except clause, and the returning call wrote last.
C35_Witness ==
    \E i \in DOMAIN collections : \E f, g \in DOMAIN fin :
        /\ LastFinalizeCompleted(collections[i].collection_id)
        /\ fin[f].collection_id = collections[i].collection_id
        /\ fin[g].collection_id = collections[i].collection_id
        /\ fin[f].pc = "done" /\ fin[f].result = "returned"
        /\ fin[g].pc = "done" /\ fin[g].result = "CollectionServiceError"
        /\ fin[g].error = "GlobusServiceError"
        /\ collections[i].status = "sealed"

\* C36: a single ingest_artifact call never records both a success and a
\* failure ingestion event on the same artifact, whichever step fails.
C36_Original ==
    \A c \in Calls :
        call[c].artifact_id \in DOMAIN artifacts =>
            ~ /\ IngestionEvents(artifacts[call[c].artifact_id], "success") # {}
              /\ IngestionEvents(artifacts[call[c].artifact_id], "failure") # {}

\* C37: for every artifact created by ingest_artifact, each hot-tier storage
\* location the call registers carries the same md5 and sha256 as the
\* artifact's fixity record, and the artifact's archival_info.checksum equals
\* the fixity sha256.
C37_LocationChecksumsMatchFixity ==
    \A a \in DOMAIN artifacts :
        /\ artifacts[a].archival_checksum = artifacts[a].fixity.checksum_sha256
        /\ \A i \in HotLocations(artifacts[a]) :
              /\ artifacts[a].storage_locations[i].checksum_md5 =
                     artifacts[a].fixity.checksum_md5
              /\ artifacts[a].storage_locations[i].checksum_sha256 =
                     artifacts[a].fixity.checksum_sha256

\* Two calls have ingested different contents; each artifact has its hot
\* location, and the digests of the two artifacts differ.
C37_Witness ==
    /\ \A c \in Calls : call[c].pc = "done" /\ call[c].result = "returned"
    /\ call[1].content # call[2].content
    /\ \A a \in DOMAIN artifacts : HotLocations(artifacts[a]) # {}
    /\ Len(artifacts) = 2
    /\ artifacts[1].fixity.checksum_sha256 # artifacts[2].fixity.checksum_sha256
    /\ artifacts[1].archival_checksum = <<"sha256", call[1].content>>

\* Call f takes a step of a finalize_collection that a raising listing ends:
\* the lookup, the write of VERIFYING, a listing, or the except clause entered
\* from a listing.
StepTowardsListingFailure(f) ==
    /\ fin'[f] # fin[f]
    /\ \/ fin[f].pc \in {"get", "set_verifying", "list_raw", "list_root"}
       \/ fin[f].pc = "handler" /\ fin[f].error \in ListingErrors

\* C38: when finalize_collection fails because a directory listing raised,
\* it changes only status, verification_errors and updated_at:
\* actual_artifact_count, total_size_bytes, has_manifest, verified_at and
\* sealed_at (and every other field) keep the values they had before the
\* call, at each step of such a call.
C38_ListingFailureFrame ==
    [][\A f \in Finalizes :
          StepTowardsListingFailure(f) =>
              /\ Len(collections') = Len(collections)
              /\ \A i \in DOMAIN collections :
                    \A k \in DOMAIN collections[i] \
                              {"status", "verification_errors", "updated_at"} :
                        collections'[i][k] = collections[i][k]]_vars

\* A collection sealed by one call has been failed by a later call whose
\* listing raised: it keeps the results of the first verification.
C38_Witness ==
    \E i \in DOMAIN collections : \E f \in Finalizes :
        /\ fin[f].pc = "done" /\ fin[f].result = "CollectionServiceError"
        /\ fin[f].error \in ListingErrors
        /\ fin[f].collection_id = collections[i].collection_id
        /\ collections[i].status = "failed"
        /\ collections[i].verification_errors = <<FailureMessage(fin[f].error)>>
        /\ collections[i].actual_artifact_count = 2
        /\ collections[i].total_size_bytes = 7
        /\ collections[i].sealed_at # 0
        /\ collections[i].verified_at = collections[i].sealed_at

\* Non-empty, over a-z, 0-9 and '-', with no '-' at either end.
WellFormedSlug(slug) ==
    /\ slug # << >>
    /\ \A i \in DOMAIN slug : IsSlugChar(slug[i]) \/ slug[i] = "-"
    /\ slug[1] # "-"
    /\ slug[Len(slug)] # "-"

\* C39: for every title of 1 to 200 characters, the slug create_draft derives
\* from it is non-empty, consists only of a-z, 0-9 and '-', and neither
\* begins nor ends with '-'.
C39_Original ==
    \A d \in DOMAIN draft :
        draft[d].pc = "insert" /\ draft[d].request_slug = << >> =>
            /\ draft[d].slug = GenerateSlug(draft[d].title)
            /\ WellFormedSlug(draft[d].slug)

====
